---- MODULE Spec2Model ----
(***************************************************************************)
(* Model of the on-chain credit scoring core of credit_scoring_onchain:    *)
(* CreditScoringService.extract_features, extract_time_series_data and     *)
(* calculate_scorecard_credit_score (src/services/credit_scoring_service). *)
(*                                                                         *)
(* Numbers.  Floats (feature values, ETH amounts, ratios) are fixed-point  *)
(* integers counted in units of 1/Scale, so 4.1449 is Dec(4, 1449) and a   *)
(* count of 3 is Dec(3, 0).  Wei amounts are counted in units of 10^12     *)
(* wei, so that 10^18 wei is the integer WeiPerEth; the transactions of    *)
(* the model carry multiples of 10^14 wei, which wei_to_eth converts       *)
(* without loss.                                                           *)
(***************************************************************************)
EXTENDS Integers, Sequences, FiniteSets, TLC

VARIABLES
    transactions,    \* the transaction list handed to the service
    wallet_address,  \* the subject address handed to the service
    now,             \* the clock reading (seconds since the epoch) during the calls
    features,        \* the feature dict: argument of the scorecard, result of extract_features
    time_series,     \* the result of extract_time_series_data
    score,           \* the result of calculate_scorecard_credit_score
    raised,          \* the exception the last call raised, NoError when it returned
    last_call,       \* name of the method called last, "none" before the first call
    calls,           \* number of service calls made so far
    cache,           \* ScoringEngine.cache: NoCache, or the entries the cache holds
    evaluations,     \* the evaluate_wallet calls: position, argument, locals, outcome
    log              \* per evaluate_wallet call, the collaborator calls it has made, in order

vars == <<transactions, wallet_address, now, features, time_series, score, raised, last_call, calls,
          cache, evaluations, log>>

\* The variables of the service calls, and those of the scoring engine.
service_vars == <<transactions, wallet_address, now, features, time_series, score, raised,
                  last_call, calls>>
engine_vars == <<cache, evaluations, log>>

NotCalled == [tag |-> "NotCalled"]

\* Values of raised: no exception, or an exception of the named type.
NoError == [type |-> "none"]
Error(type) == [type |-> type]

\* Number of calls a behaviour may make on one input.
MaxCalls == 2

\* Number of evaluate_wallet calls a behaviour of the engine may make.
MaxEvaluations == 2
Evaluations == 1..MaxEvaluations

\* ScoringEngine.cache when no cache was handed to the constructor (None).
NoCache == [tag |-> "None"]

\* An evaluate_wallet call that has not been made yet.  alongside holds the
\* calls that were waiting for their fetch when this call was made.
IdleCall == [pc |-> "idle", wallet_address |-> <<>>, normalized_address |-> <<>>,
             transactions |-> <<>>, result |-> NotCalled, raised |-> NoError,
             alongside |-> {}]

\* The engine before its first call, without a cache.
EngineIdle ==
    /\ cache = NoCache
    /\ evaluations = [t \in Evaluations |-> IdleCall]
    /\ log = [t \in Evaluations |-> <<>>]

(***************************************************************************)
(* Python values held by a feature dict                                    *)
(***************************************************************************)
Scale == 10^4

Dec(int, frac) == int * Scale + frac

Num(n)  == [tag |-> "num", val |-> n]
None    == [tag |-> "None"]
NaN     == [tag |-> "NaN"]

IsNum(v) == v.tag = "num"

\* A Python float returned as a score.
Float(n) == [tag |-> "float", val |-> n]

\* The empty dict {}.
EmptyDict == [k \in {} |-> None]

\* A dict with key n set to v, and with key n deleted.
Override(f, n, v) == [k \in DOMAIN f \cup {n} |-> IF k = n THEN v ELSE f[k]]
Remove(f, n) == [k \in DOMAIN f \ {n} |-> f[k]]

\* dict.get(key, default)
get(d, key, default) == IF key \in DOMAIN d THEN d[key] ELSE default

\* Python's  v < t  for a float threshold t: False for NaN.  (None < t raises
\* TypeError; see RaisesTypeError.)
Less(v, t) == IsNum(v) /\ v.val < t

\* Python's  v > t
Greater(v, t) == IsNum(v) /\ v.val > t

(***************************************************************************)
(* calculate_scorecard_credit_score                                        *)
(***************************************************************************)
\* The features read with  features.get(name, <numeric default>)  and then
\* compared with a float: a None stored under the key is returned as is and
\* the comparison raises TypeError.
DefaultedFeatures ==
    {"account_age_days", "avg_tx_value", "tx_count_6m", "unique_counterparties",
     "contract_interactions", "largest_outgoing_tx", "months_with_tx",
     "total_transactions"}

RaisesTypeError(f) == \E n \in DefaultedFeatures : get(f, n, Num(0)) = None

\* account_age_months, in units of 1/30 month (so days are not divided):
\* account_age_days / 30.0 if account_age_days > 0 else 0.0
account_age_months_x30(f) ==
    LET account_age_days == get(f, "account_age_days", Num(0))
    IN  IF Greater(account_age_days, 0) THEN account_age_days.val ELSE 0

account_age_points(f) ==
    LET m == account_age_months_x30(f)
    IN  IF m < 30 * Dec(18, 0) THEN 54
        ELSE IF m < 30 * Dec(54, 0) THEN 57
        ELSE 88

\* avg_tx_value_points with the second bound taken inclusively.
avg_tx_value_points_inclusive(f) ==
    LET avg_tx_value == get(f, "avg_tx_value", Num(0))
    IN  IF Less(avg_tx_value, Dec(0, 6)) THEN 25
        ELSE IF Less(avg_tx_value, Dec(0, 181) + 1) THEN 45
        ELSE IF Less(avg_tx_value, Dec(4, 1449)) THEN 64
        ELSE 77

avg_tx_value_points(f) ==
    LET avg_tx_value == get(f, "avg_tx_value", Num(0))
    IN  IF Less(avg_tx_value, Dec(0, 6)) THEN 25
        ELSE IF Less(avg_tx_value, Dec(0, 181)) THEN 45
        ELSE IF Less(avg_tx_value, Dec(4, 1449)) THEN 64
        ELSE 77

\* tx_count_6m_points with the last two bins' points exchanged.
tx_count_6m_points_swapped(f) ==
    LET tx_count_6m == get(f, "tx_count_6m", Num(0))
    IN  IF Less(tx_count_6m, Dec(1, 0)) THEN 57
        ELSE IF Less(tx_count_6m, Dec(3, 0)) THEN 131
        ELSE 93

tx_count_6m_points(f) ==
    LET tx_count_6m == get(f, "tx_count_6m", Num(0))
    IN  IF Less(tx_count_6m, Dec(1, 0)) THEN 57
        ELSE IF Less(tx_count_6m, Dec(3, 0)) THEN 93
        ELSE 131

unique_counterparties_points(f) ==
    LET unique_counterparties == get(f, "unique_counterparties", Num(0))
    IN  IF Less(unique_counterparties, Dec(8, 0)) THEN 49
        ELSE IF Less(unique_counterparties, Dec(1881, 0)) THEN 60
        ELSE 78

contract_interactions_points(f) ==
    LET contract_interactions == get(f, "contract_interactions", Num(0))
    IN  IF Less(contract_interactions, Dec(2, 0)) THEN 36
        ELSE IF Less(contract_interactions, Dec(19, 0)) THEN 51
        ELSE IF Less(contract_interactions, Dec(83, 0)) THEN 66
        ELSE IF Less(contract_interactions, Dec(1974, 0)) THEN 74
        ELSE 84

largest_outgoing_tx_points(f) ==
    LET largest_outgoing_tx == get(f, "largest_outgoing_tx", Num(0))
    IN  IF Less(largest_outgoing_tx, Dec(12, 8000)) THEN 57
        ELSE IF Less(largest_outgoing_tx, Dec(206, 2000)) THEN 62
        ELSE 70

\* months_with_tx_points with the points of the second and third bin exchanged.
months_with_tx_points_unordered(f) ==
    LET months_with_tx == get(f, "months_with_tx", Num(0))
    IN  IF Less(months_with_tx, Dec(18, 0)) THEN 59
        ELSE IF Less(months_with_tx, Dec(37, 0)) THEN 68
        ELSE IF Less(months_with_tx, Dec(67, 0)) THEN 66
        ELSE 77

months_with_tx_points(f) ==
    LET months_with_tx == get(f, "months_with_tx", Num(0))
    IN  IF Less(months_with_tx, Dec(18, 0)) THEN 59
        ELSE IF Less(months_with_tx, Dec(37, 0)) THEN 66
        ELSE IF Less(months_with_tx, Dec(67, 0)) THEN 68
        ELSE 77

\* features.get('tx_value_skewness'): no default, None is tested first.
tx_value_skewness_points(f) ==
    LET tx_value_skewness == get(f, "tx_value_skewness", None)
    IN  IF tx_value_skewness = None THEN 46
        ELSE IF Less(tx_value_skewness, Dec(4, 5473)) THEN 51
        ELSE IF Less(tx_value_skewness, Dec(14, 6823)) THEN 62
        ELSE IF Less(tx_value_skewness, Dec(66, 3151)) THEN 67
        ELSE 72

\* total_transactions_points with the catch-all bin mistyped as 171.
total_transactions_points_mistyped(f) ==
    LET total_transactions == get(f, "total_transactions", Num(0))
    IN  IF Less(total_transactions, Dec(19, 0)) THEN 44
        ELSE IF Less(total_transactions, Dec(2508, 0)) THEN 59
        ELSE IF Less(total_transactions, Dec(4594, 0)) THEN 61
        ELSE 171

total_transactions_points(f) ==
    LET total_transactions == get(f, "total_transactions", Num(0))
    IN  IF Less(total_transactions, Dec(19, 0)) THEN 44
        ELSE IF Less(total_transactions, Dec(2508, 0)) THEN 59
        ELSE IF Less(total_transactions, Dec(4594, 0)) THEN 61
        ELSE 71

\* The points the feature named n adds to the score of f.
feature_points(f, n) ==
    CASE n = "account_age_days"      -> account_age_points(f)
      [] n = "avg_tx_value"          -> avg_tx_value_points(f)
      [] n = "tx_count_6m"           -> tx_count_6m_points(f)
      [] n = "unique_counterparties" -> unique_counterparties_points(f)
      [] n = "contract_interactions" -> contract_interactions_points(f)
      [] n = "largest_outgoing_tx"   -> largest_outgoing_tx_points(f)
      [] n = "months_with_tx"        -> months_with_tx_points(f)
      [] n = "tx_value_skewness"     -> tx_value_skewness_points(f)
      [] n = "total_transactions"    -> total_transactions_points(f)

\* The value returned, or the exception raised, for the feature dict f.
calculate_scorecard_credit_score(f) ==
    IF RaisesTypeError(f)
    THEN [raised |-> Error("TypeError")]
    ELSE [raised |-> NoError,
          score  |-> account_age_points(f) + avg_tx_value_points(f)
                     + tx_count_6m_points(f) + unique_counterparties_points(f)
                     + contract_interactions_points(f) + largest_outgoing_tx_points(f)
                     + months_with_tx_points(f) + tx_value_skewness_points(f)
                     + total_transactions_points(f)]

\* One call  service.calculate_scorecard_credit_score(features).
ScorecardCall ==
    /\ calls < MaxCalls
    /\ features # NotCalled
    /\ \E r \in {calculate_scorecard_credit_score(features)} :
           /\ raised' = r.raised
           /\ score' = IF r.raised = NoError THEN Float(r.score) ELSE NotCalled
    /\ calls' = calls + 1
    /\ last_call' = "calculate_scorecard_credit_score"
    /\ UNCHANGED <<transactions, wallet_address, now, features, time_series, cache, evaluations, log>>

(***************************************************************************)
(* calculate_credit_score                                                  *)
(***************************************************************************)
\* The value returned, or the exception raised, for the feature dict f and
\* the optional card_info.  An empty dict returns 0.0.  Otherwise the
\* components are added up in the local variable score and clamped with
\* max(0, min(1000, score)), and the method ends without a return statement:
\* the caller receives None.  On the way, a None stored under a feature that
\* is read with a numeric default raises TypeError in the arithmetic, as does
\* a None card score, and math.log1p raises ValueError for a total volume of
\* -1 or less.
calculate_credit_score(f, card_info) ==
    LET \* read before and after the volume component, in this order
        first == {"account_age_days", "total_transactions", "total_eth_sent",
                  "total_eth_received"}
        later == {"unique_counterparties", "counterparty_entropy", "contract_interactions",
                  "days_since_last_tx", "failed_tx_ratio", "avg_tx_per_month"}
        total_eth_sent     == get(f, "total_eth_sent", Num(0))
        total_eth_received == get(f, "total_eth_received", Num(0))
        card_scores == IF card_info = None THEN {}
                       ELSE {"card_credit_score", "card_zscore_reputation_score"}
                                \cap DOMAIN card_info
    IN  IF f = EmptyDict
        THEN [raised |-> NoError, score |-> Float(0)]
        ELSE IF \E n \in first : get(f, n, Num(0)) = None
        THEN [raised |-> Error("TypeError")]
        ELSE IF /\ IsNum(total_eth_sent) /\ IsNum(total_eth_received)
                /\ total_eth_sent.val + total_eth_received.val <= 0 - Dec(1, 0)
        THEN [raised |-> Error("ValueError")]
        ELSE IF \E n \in later : get(f, n, Num(0)) = None
        THEN [raised |-> Error("TypeError")]
        ELSE IF \E k \in card_scores : card_info[k] = None
        THEN [raised |-> Error("TypeError")]
        ELSE [raised |-> NoError, score |-> None]

\* The card_info arguments: none, an empty dict, and dicts with a score.
CardInfos ==
    {None, EmptyDict,
     [card_credit_score |-> Num(Dec(500, 0))],
     [card_credit_score |-> Num(Dec(500, 0)), card_zscore_reputation_score |-> None]}

\* One call  service.calculate_credit_score(features, card_info).
CreditScoreCall ==
    /\ calls < MaxCalls
    /\ features # NotCalled
    /\ \E card_info \in CardInfos :
           \E r \in {calculate_credit_score(features, card_info)} :
               /\ raised' = r.raised
               /\ score' = IF r.raised = NoError THEN r.score ELSE NotCalled
    /\ calls' = calls + 1
    /\ last_call' = "calculate_credit_score"
    /\ UNCHANGED <<transactions, wallet_address, now, features, time_series, cache, evaluations, log>>

(***************************************************************************)
(* Transaction records and the DataFrame built from them                   *)
(*                                                                         *)
(* A transaction is a dict: a function from the field names it carries to  *)
(* cells.  A cell is a Python int Num(n), a string of decimal digits       *)
(* NumStr(n) (what Etherscan sends), or any other string Str(s).           *)
(* pd.DataFrame(transactions) has one row per dict and one column per key  *)
(* that occurs in some dict; a row lacking the key holds NaN there.        *)
(***************************************************************************)
NumStr(n) == [tag |-> "numstr", val |-> n]
Str(s)    == [tag |-> "str", val |-> s]

Columns(txs) == UNION {DOMAIN txs[i] : i \in 1..Len(txs)}

\* df.empty with the test left out.
df_empty_never(txs) == FALSE

\* df.empty: no rows or no columns.
df_empty(txs) == Len(txs) = 0 \/ Columns(txs) = {}

Cell(tx, c) == IF c \in DOMAIN tx THEN tx[c] ELSE NaN

\* pd.to_numeric(column, errors='coerce'), cell by cell.
to_numeric(v) ==
    CASE v.tag = "num"    -> v
      [] v.tag = "numstr" -> Num(v.val)
      [] OTHER            -> NaN

\* str.lower() on the address strings of the model.
LowerCase == [s \in {"0xABC", "0xDEF"} |-> IF s = "0xABC" THEN "0xabc" ELSE "0xdef"]
lower(s) == IF s \in DOMAIN LowerCase THEN LowerCase[s] ELSE s

\* astype(str) without the lowercasing.
astype_str(v) ==
    CASE v.tag = "str"    -> v.val
      [] v.tag = "NaN"    -> "nan"
      [] OTHER            -> "<digits>"

\* column.astype(str).str.lower(), cell by cell: NaN becomes the string "nan".
astype_str_lower(v) ==
    CASE v.tag = "str"    -> lower(v.val)
      [] v.tag = "NaN"    -> "nan"
      [] OTHER            -> "<digits>"

required_fields == {"timeStamp", "value", "from", "to"}

missing_fields(txs) == {f \in required_fields : f \notin Columns(txs)}

\* The row of df for the dict tx after the type conversions: timeStamp is
\* Num(seconds) or NaN (NaT), value and isError are Num or NaN, from and to
\* are lowercased strings; input and contractAddress stay raw cells.
convert_row(tx, has_isError) ==
    [timeStamp |-> to_numeric(Cell(tx, "timeStamp")),
     value     |-> to_numeric(Cell(tx, "value")),
     isError   |-> IF has_isError THEN to_numeric(Cell(tx, "isError")) ELSE Num(0),
     from      |-> astype_str_lower(Cell(tx, "from")),
     to        |-> astype_str_lower(Cell(tx, "to")),
     input     |-> Cell(tx, "input"),
     contractAddress |-> Cell(tx, "contractAddress"),
     gasPrice  |-> to_numeric(Cell(tx, "gasPrice"))]

convert_types(txs) ==
    [i \in 1..Len(txs) |-> convert_row(txs[i], "isError" \in Columns(txs))]

(***************************************************************************)
(* Series arithmetic                                                       *)
(***************************************************************************)
\* The sum of a sequence of integers, halved at each step so that long
\* columns are summed in logarithmic depth.
RECURSIVE SumSeq(_)
SumSeq(q) ==
    IF q = <<>> THEN 0
    ELSE IF Len(q) = 1 THEN q[1]
    ELSE SumSeq(SubSeq(q, 1, Len(q) \div 2))
             + SumSeq(SubSeq(q, (Len(q) \div 2) + 1, Len(q)))

\* The numbers of a column, NaN dropped.
Valid(df, c) == {df[i][c].val : i \in {j \in 1..Len(df) : IsNum(df[j][c])}}

\* The element of a one-element set: TheOnly({e(x) : x \in {v}}) is e(v) with
\* v worked out once, as a local variable of the code is assigned once.
TheOnly(S) == CHOOSE x \in S : TRUE

SetMax(S) == CHOOSE x \in S : \A y \in S : y <= x
SetMin(S) == CHOOSE x \in S : \A y \in S : x <= y

\* column.sum(): NaN counts as 0.
col_sum(df, c) == SumSeq([i \in 1..Len(df) |-> IF IsNum(df[i][c]) THEN df[i][c].val ELSE 0])

\* column.max(), column.min(): NaN (NaT) when no cell is valid.
col_max(df, c) == IF Valid(df, c) = {} THEN NaN ELSE Num(SetMax(Valid(df, c)))
col_min(df, c) == IF Valid(df, c) = {} THEN NaN ELSE Num(SetMin(Valid(df, c)))

\* (boolean column).sum(): the number of True cells.
count_true(flags) == Cardinality({i \in DOMAIN flags : flags[i]})

\* column.mean(): NaN when no cell is valid.
col_mean(df, c) ==
    IF Valid(df, c) = {} THEN NaN
    ELSE Num(col_sum(df, c) \div count_true([k \in 1..Len(df) |-> IsNum(df[k][c])]))

\* The integer square root of x, found by halving the range lo..hi that
\* holds it (46340 is the root of the largest square below 2^31).
RECURSIVE isqrt_between(_, _, _)
isqrt_between(x, lo, hi) ==
    IF lo = hi THEN lo
    ELSE IF ((lo + hi + 1) \div 2) * ((lo + hi + 1) \div 2) <= x
         THEN isqrt_between(x, (lo + hi + 1) \div 2, hi)
         ELSE isqrt_between(x, lo, ((lo + hi + 1) \div 2) - 1)

isqrt(x) == isqrt_between(x, 0, 46340)

\* The deviations of the numbers xs from their mean, scaled so that the
\* largest is unit in size (skewness and kurtosis do not depend on the scale;
\* the scaling keeps the powers within the integers).  The numbers are not
\* all equal.
scaled_deviations(xs, unit) ==
    TheOnly({[k \in 1..Len(xs) |->
                 IF xs[k] >= mean
                 THEN ((xs[k] - mean) * unit) \div dmax
                 ELSE 0 - (((mean - xs[k]) * unit) \div dmax)] :
             mean \in {SumSeq(xs) \div Len(xs)},
             dmax \in {SetMax({IF xs[k] >= SumSeq(xs) \div Len(xs)
                                THEN xs[k] - (SumSeq(xs) \div Len(xs))
                                ELSE (SumSeq(xs) \div Len(xs)) - xs[k] : k \in 1..Len(xs)})}})

\* Series.skew() of the valid numbers xs of a column: NaN for fewer than
\* three of them, 0 when they are all equal, otherwise the adjusted
\* Fisher-Pearson coefficient  sqrt(n (n - 1)) / (n - 2) * m3 / m2^1.5,
\* worked out in integers (good to a few parts in a hundred).
skew(xs) ==
    IF Len(xs) < 3 THEN NaN
    ELSE IF Cardinality({xs[k] : k \in 1..Len(xs)}) = 1 THEN Num(0)
    ELSE TheOnly({
             TheOnly({
                 Num((IF m3 >= 0 THEN 1 ELSE -1)
                     * ((((((IF m3 >= 0 THEN m3 ELSE 0 - m3) \div Len(xs)) * 1000)
                            \div (m2 * isqrt(m2 * 100)))
                         * isqrt(Len(xs) * (Len(xs) - 1) * 10000))
                        \div (100 * (Len(xs) - 2)))
                     * (Scale \div 100)) :
                 m2 \in {SumSeq([k \in 1..Len(xs) |-> u[k] * u[k]]) \div Len(xs)},
                 m3 \in {SumSeq([k \in 1..Len(xs) |-> u[k] * u[k] * u[k]])}}) :
             u \in {scaled_deviations(xs, 100)}})

\* Series.kurtosis() of the valid numbers xs: NaN for fewer than four of
\* them, 0 when they are all equal, otherwise the excess kurtosis
\* (n + 1)(n - 1) m4 / ((n - 2)(n - 3) m2^2) - 3 (n - 1)^2 / ((n - 2)(n - 3)),
\* worked out in integers (good to a few parts in a hundred).
kurtosis(xs) ==
    IF Len(xs) < 4 THEN NaN
    ELSE IF Cardinality({xs[k] : k \in 1..Len(xs)}) = 1 THEN Num(0)
    ELSE TheOnly({
             TheOnly({
                 Num((((m4 \div ((m2 * m2) \div 100)) * ((Len(xs) + 1) * (Len(xs) - 1)))
                          \div ((Len(xs) - 2) * (Len(xs) - 3))
                      - (300 * (Len(xs) - 1) * (Len(xs) - 1))
                          \div ((Len(xs) - 2) * (Len(xs) - 3)))
                     * (Scale \div 100)) :
                 m2 \in {SumSeq([k \in 1..Len(xs) |-> u[k] * u[k]]) \div Len(xs)},
                 m4 \in {SumSeq([k \in 1..Len(xs) |-> u[k] * u[k] * u[k] * u[k]]) \div Len(xs)}}) :
             u \in {scaled_deviations(xs, 70)}})

\* Python's max(1, n)
max1(n) == IF n > 1 THEN n ELSE 1

\* a / b for integers a, b > 0, as a fixed-point float.
true_div(a, b) == Num((a * Scale) \div b)

SecondsPerDay == 86400

\* Wei are counted in units of 10^12 wei: 10^18 wei is WeiPerEth units.
WeiPerEth == 10^6

\* wei_to_eth: x / 1e18 (x is never None here), NaN for NaN.
wei_to_eth(x) == IF IsNum(x) THEN Num(x.val \div (WeiPerEth \div Scale)) ELSE NaN

(***************************************************************************)
(* Calendar arithmetic of pandas timestamps (seconds since the epoch, UTC) *)
(***************************************************************************)
day_of(ts) == ts \div SecondsPerDay

\* dt.hour
hour_of(ts) == (ts % SecondsPerDay) \div 3600

\* dt.dayofweek: Monday is 0; 1970-01-01 was a Thursday.
dayofweek(ts) == (day_of(ts) + 3) % 7

\* dt.to_period('W'): weeks run Monday to Sunday; the week is named by the
\* day number of its Monday.
week_of(ts) == day_of(ts) - dayofweek(ts)

\* dt.to_period('M'): <<year, month>> of the proleptic Gregorian calendar.
month_of(ts) ==
    LET z   == day_of(ts) + 719468
        era == z \div 146097
        doe == z - era * 146097
        yoe == (doe - doe \div 1460 + doe \div 36524 - doe \div 146096) \div 365
        doy == doe - (365 * yoe + yoe \div 4 - yoe \div 100)
        mp  == (5 * doy + 2) \div 153
        m   == IF mp < 10 THEN mp + 3 ELSE mp - 9
        y   == yoe + era * 400 + (IF m <= 2 THEN 1 ELSE 0)
    IN  <<y, m>>

\* The day of the month of a timestamp.
day_of_month(ts) ==
    LET z   == day_of(ts) + 719468
        era == z \div 146097
        doe == z - era * 146097
        yoe == (doe - doe \div 1460 + doe \div 36524 - doe \div 146096) \div 365
        doy == doe - (365 * yoe + yoe \div 4 - yoe \div 100)
        mp  == (5 * doy + 2) \div 153
    IN  doy - (153 * mp + 2) \div 5 + 1

\* The day number (days since the epoch) of the calendar date y-m-d.
days_from_civil(y, m, d) ==
    LET yy  == IF m <= 2 THEN y - 1 ELSE y
        era == yy \div 400
        yoe == yy - era * 400
        mp  == IF m > 2 THEN m - 3 ELSE m + 9
        doy == (153 * mp + 2) \div 5 + d - 1
        doe == yoe * 365 + yoe \div 4 - yoe \div 100 + doy
    IN  era * 146097 + doe - 719468

days_in_month(y, m) ==
    IF m = 12 THEN 31
    ELSE days_from_civil(y, m + 1, 1) - days_from_civil(y, m, 1)

\* clock - pd.DateOffset(months=n): the same day of the month n calendar
\* months earlier (the last day of that month when it is shorter), at the
\* same time of day.
months_before(clock, n) ==
    LET ord == month_of(clock)[1] * 12 + (month_of(clock)[2] - 1) - n
        y   == ord \div 12
        m   == (ord % 12) + 1
        d   == IF day_of_month(clock) < days_in_month(y, m)
               THEN day_of_month(clock) ELSE days_in_month(y, m)
    IN  days_from_civil(y, m, d) * SecondsPerDay + (clock % SecondsPerDay)

\* Periods are ordered by their ordinal.
month_ordinal(p) == p[1] * 12 + (p[2] - 1)

\* sorted(set of integers), ascending.
sorted(S) ==
    [i \in 1..Cardinality(S) |->
        CHOOSE x \in S : Cardinality({y \in S : y < x}) = i - 1]

\* q[:n], the oldest entries kept instead of the latest.
first_n(q, n) == IF Len(q) <= n THEN q ELSE SubSeq(q, 1, n)

\* q[-n:]
last_n(q, n) == IF Len(q) <= n THEN q ELSE SubSeq(q, Len(q) - n + 1, Len(q))

(***************************************************************************)
(* extract_features                                                        *)
(***************************************************************************)
\* df[df['from'] == wallet_address], df[df['to'] == wallet_address]
outgoing_txs(df, w) == SelectSeq(df, LAMBDA r : r.from = w)
incoming_txs(df, w) == SelectSeq(df, LAMBDA r : r.to = w)

\* (df['timeStamp'].max() - df['timeStamp'].min()).days; NaT.days is nan.
account_age_days(df) ==
    LET newest == col_max(df, "timeStamp")
        oldest == col_min(df, "timeStamp")
    IN  IF IsNum(newest)
        THEN Num(Dec((newest.val - oldest.val) \div SecondsPerDay, 0))
        ELSE NaN

\* The rows with a valid timestamp counted instead of all rows.
total_transactions_valid(df) ==
    Num(Dec(count_true([k \in 1..Len(df) |-> IsNum(df[k].timeStamp)]), 0))

\* len(df)
total_transactions(df) == Num(Dec(Len(df), 0))

total_eth_sent(df, w)     == wei_to_eth(Num(col_sum(outgoing_txs(df, w), "value")))
total_eth_received(df, w) == wei_to_eth(Num(col_sum(incoming_txs(df, w), "value")))

net_eth_change(df, w) == Num(total_eth_received(df, w).val - total_eth_sent(df, w).val)

largest_tx_value(df) == wei_to_eth(col_max(df, "value"))

\* isinstance(x, str) and len(str(x)) > 2, for the strings of the model.
LongStrings == {"0xa9059cbb", "0xc0ffee"}
is_long_str(x) ==
    \/ x.tag = "str" /\ x.val \in LongStrings
    \/ x.tag = "numstr" /\ x.val >= 100

contract_interactions(df) == Num(Dec(count_true([k \in 1..Len(df) |-> is_long_str(df[k].input)]), 0))

contract_deployments(df, has_contractAddress) ==
    IF has_contractAddress
    THEN Num(Dec(count_true([k \in 1..Len(df) |-> is_long_str(df[k].contractAddress)]), 0))
    ELSE Num(0)

\* (df['isError'] == 1).sum()
failed_count(df) == count_true([k \in 1..Len(df) |-> df[k].isError = Num(1)])

failed_transactions(df) == Num(Dec(failed_count(df), 0))

\* failed_tx_ratio with every row whose flag is not 0 counted as failed.
failed_tx_ratio_nonzero(df) ==
    true_div(count_true([k \in 1..Len(df) |-> df[k].isError # Num(0)]), max1(Len(df)))

\* features['failed_transactions'] / max(1, features['total_transactions'])
failed_tx_ratio(df) == true_div(failed_count(df), max1(Len(df)))

\* (df['value'] == 0).sum() / max(1, len(df))
zero_value_tx_ratio(df) ==
    true_div(count_true([k \in 1..Len(df) |-> df[k].value = Num(0)]), max1(Len(df)))

\* incoming_count / max(1, outgoing_count)
in_out_tx_count_ratio(df, w) ==
    true_div(Len(incoming_txs(df, w)), max1(Len(outgoing_txs(df, w))))

\* wei_to_eth(df['value'].mean())
avg_tx_value(df) == wei_to_eth(col_mean(df, "value"))

\* set(sent['to'].dropna().unique()) | set(received['from'].dropna().unique())
\* (the address columns hold strings, so dropna drops nothing).
counterparties(df, w) ==
    LET sent     == outgoing_txs(df, w)
        received == incoming_txs(df, w)
    IN  {sent[i].to : i \in 1..Len(sent)} \cup {received[i].from : i \in 1..Len(received)}

unique_counterparties(df, w) == Num(Dec(Cardinality(counterparties(df, w)), 0))

\* (datetime.now(timezone.utc) - df['timeStamp'].max()).days; nan for NaT.
days_since_last_tx(df, clock) ==
    LET newest == col_max(df, "timeStamp")
    IN  IF IsNum(newest)
        THEN Num(Dec((clock - newest.val) \div SecondsPerDay, 0))
        ELSE NaN

\* pd.concat([sent['to'], received['from']]): one appearance per record sent
\* by the wallet, then one per record received by it.
cp_all(df, w) ==
    LET sent     == outgoing_txs(df, w)
        received == incoming_txs(df, w)
    IN  [i \in 1..Len(sent) |-> sent[i].to] \o [i \in 1..Len(received) |-> received[i].from]

\* cp_all.value_counts()[cp_all.value_counts() > 1].sum(): the appearances of
\* the counterparties that appear more than once, all of them.
repeat_cp(cps) ==
    count_true([k \in 1..Len(cps) |->
                   count_true([j \in 1..Len(cps) |-> cps[j] = cps[k]]) > 1])

\* repeat_cp / max(1, len(cp_all))
repeat_counterparty_rate(df, w) ==
    LET cps == cp_all(df, w)
    IN  true_div(repeat_cp(cps), max1(Len(cps)))

\* current_streak after the loop over is_failed has passed row i: each failed
\* row adds one and any other row resets it to 0, which leaves the number of
\* rows passed since the last reset.
current_streak(df, i) ==
    i - SetMax({0} \cup {j \in 1..i : df[j].isError # Num(1)})

\* The loop over is_failed up to and including row i: the streak running at
\* row i and the longest streak met so far (max_failed_streak takes the
\* maximum with current_streak at each failed row).
failed_streaks(df, i) ==
    [current_streak    |-> current_streak(df, i),
     max_failed_streak |-> SetMax({0} \cup {current_streak(df, j) : j \in 1..i})]

\* The streak scanned over the rows sorted by time (df.sort_values('timeStamp'))
\* instead of in the order given.
max_failed_tx_streak_sorted(df) ==
    LET times     == {df[i].timeStamp.val : i \in {j \in 1..Len(df) : IsNum(df[j].timeStamp)}}
        ordered   == sorted(times)
        df_sorted == IF Cardinality(times) = Len(df)
                     THEN [i \in 1..Len(df) |->
                              df[CHOOSE k \in 1..Len(df) : df[k].timeStamp = Num(ordered[i])]]
                     ELSE df
    IN  Num(Dec(failed_streaks(df_sorted, Len(df_sorted)).max_failed_streak, 0))

max_failed_tx_streak(df) == Num(Dec(failed_streaks(df, Len(df)).max_failed_streak, 0))

\* df_eth_value = df['value'] / 1e18, NaN dropped: the numbers that skew()
\* and kurtosis() work on.
df_eth_value(df) ==
    LET rows == SelectSeq(df, LAMBDA r : IsNum(r.value))
    IN  [k \in 1..Len(rows) |-> wei_to_eth(rows[k].value).val]

\* df_eth_value.skew() if len(df) > 1 else 0
tx_value_skewness(df) ==
    IF Len(df) > 1 THEN TheOnly({skew(xs) : xs \in {df_eth_value(df)}}) ELSE Num(0)

\* df_eth_value.kurtosis() if len(df) > 1 else 0
tx_value_kurtosis(df) ==
    IF Len(df) > 1 THEN TheOnly({kurtosis(xs) : xs \in {df_eth_value(df)}}) ELSE Num(0)

\* wei_to_eth(outgoing_txs['value'].max()) if not outgoing_txs.empty else 0
largest_outgoing_tx(df, w) ==
    IF outgoing_txs(df, w) # <<>>
    THEN wei_to_eth(col_max(outgoing_txs(df, w), "value"))
    ELSE Num(0)

\* df['timeStamp'].dt.to_period('M').nunique(); nunique leaves NaT out.
months_with_tx(df) ==
    Num(Dec(Cardinality({month_of(t) : t \in Valid(df, "timeStamp")}), 0))

\* (df['gasPrice'] == max_gas_price).sum() / max(1, len(df)); nothing equals
\* a NaN maximum.
max_gas_price_tx_ratio(df, has_gasPrice) ==
    IF has_gasPrice
    THEN true_div(count_true([k \in 1..Len(df) |->
                                 /\ IsNum(df[k].gasPrice)
                                 /\ df[k].gasPrice = col_max(df, "gasPrice")]),
                  max1(Len(df)))
    ELSE Num(0)

\* The features computed from the converted frame without a clock reading
\* (those the properties below read; the dict of the code holds further
\* statistics of the same kind).
compute_features(df, w, cols) ==
    [account_age_days      |-> account_age_days(df),
     total_transactions    |-> total_transactions(df),
     total_eth_sent        |-> total_eth_sent(df, w),
     total_eth_received    |-> total_eth_received(df, w),
     net_eth_change        |-> net_eth_change(df, w),
     largest_tx_value      |-> largest_tx_value(df),
     avg_tx_value          |-> avg_tx_value(df),
     unique_counterparties |-> unique_counterparties(df, w),
     contract_interactions |-> contract_interactions(df),
     contract_deployments  |-> contract_deployments(df, "contractAddress" \in cols),
     failed_transactions   |-> failed_transactions(df),
     failed_tx_ratio       |-> failed_tx_ratio(df),
     in_out_tx_count_ratio |-> in_out_tx_count_ratio(df, w),
     zero_value_tx_ratio   |-> zero_value_tx_ratio(df),
     repeat_counterparty_rate |-> repeat_counterparty_rate(df, w),
     largest_outgoing_tx   |-> largest_outgoing_tx(df, w),
     months_with_tx        |-> months_with_tx(df),
     tx_value_skewness     |-> tx_value_skewness(df),
     tx_value_kurtosis     |-> tx_value_kurtosis(df),
     max_failed_tx_streak  |-> max_failed_tx_streak(df),
     max_gas_price_tx_ratio |-> max_gas_price_tx_ratio(df, "gasPrice" \in cols)]

\* df[df['timeStamp'] > cutoff]: a record exactly at the cutoff left out.
window_rows_exclusive(df, cutoff) ==
    SelectSeq(df, LAMBDA r : IsNum(r.timeStamp) /\ r.timeStamp.val > cutoff)

\* dfx = df[df['timeStamp'] >= cutoff]; NaT compares False.
window_rows(df, cutoff) ==
    SelectSeq(df, LAMBDA r : IsNum(r.timeStamp) /\ r.timeStamp.val >= cutoff)

\* The eight features of one window, computed from its rows dfx (the body of
\* the loop over the labels '6m' and '12m').
window_features(dfx, w) ==
    LET dfx_sent == outgoing_txs(dfx, w)
        dfx_recv == incoming_txs(dfx, w)
        sent     == IF dfx_sent # <<>> THEN wei_to_eth(Num(col_sum(dfx_sent, "value"))) ELSE Num(0)
        received == IF dfx_recv # <<>> THEN wei_to_eth(Num(col_sum(dfx_recv, "value"))) ELSE Num(0)
        \* not dfx.empty and dfx['value'].notna().any()
        has_value == dfx # <<>> /\ Valid(dfx, "value") # {}
    IN  [tx_count              |-> Num(Dec(Len(dfx), 0)),
         total_eth_sent        |-> sent,
         total_eth_received    |-> received,
         net_eth_change        |-> Num(received.val - sent.val),
         largest_tx_value      |-> IF has_value THEN wei_to_eth(col_max(dfx, "value")) ELSE Num(0),
         avg_tx_value          |-> IF has_value THEN wei_to_eth(col_mean(dfx, "value")) ELSE Num(0),
         failed_tx_count       |-> IF dfx # <<>> THEN Num(Dec(failed_count(dfx), 0)) ELSE Num(0),
         unique_counterparties |-> Num(Dec(Cardinality(counterparties(dfx, w)), 0))]

\* The features that read the clock: days_since_last_tx, and the historical
\* features of the last 6 and 12 months.  pd.Timestamp.now() is the wall
\* clock of the host, taken here to run on UTC like the timestamps.
clock_features(df, w, clock) ==
    TheOnly({
        [days_since_last_tx        |-> days_since_last_tx(df, clock),
         tx_count_6m               |-> f6.tx_count,
         total_eth_sent_6m         |-> f6.total_eth_sent,
         total_eth_received_6m     |-> f6.total_eth_received,
         net_eth_change_6m         |-> f6.net_eth_change,
         largest_tx_value_6m       |-> f6.largest_tx_value,
         avg_tx_value_6m           |-> f6.avg_tx_value,
         failed_tx_count_6m        |-> f6.failed_tx_count,
         unique_counterparties_6m  |-> f6.unique_counterparties,
         tx_count_12m              |-> f12.tx_count,
         total_eth_sent_12m        |-> f12.total_eth_sent,
         total_eth_received_12m    |-> f12.total_eth_received,
         net_eth_change_12m        |-> f12.net_eth_change,
         largest_tx_value_12m      |-> f12.largest_tx_value,
         avg_tx_value_12m          |-> f12.avg_tx_value,
         failed_tx_count_12m       |-> f12.failed_tx_count,
         unique_counterparties_12m |-> f12.unique_counterparties] :
            f6  \in {window_features(dfx, w) :
                        dfx \in {window_rows(df, months_before(clock, 6))}},
            f12 \in {window_features(dfx, w) :
                        dfx \in {window_rows(df, months_before(clock, 12))}}})

\* The features dict with the account age measured up to the clock reading
\* instead of up to the last transaction.
features_dict_aged(df, w, cols, clock) ==
    [compute_features(df, w, cols) EXCEPT
        !.account_age_days =
            IF IsNum(col_min(df, "timeStamp"))
            THEN Num(Dec((clock - col_min(df, "timeStamp").val) \div SecondsPerDay, 0))
            ELSE NaN]
        @@ clock_features(df, w, clock)

\* The features dict returned.
features_dict(df, w, cols, clock) ==
    compute_features(df, w, cols) @@ clock_features(df, w, clock)

\* The dict returned, or the exception raised, by
\* extract_features(txs, w) at the clock reading clock:
\*   - an empty frame returns {};
\*   - a required column missing raises ValueError naming the columns;
\*   - df['input'] raises KeyError when no dict carries 'input';
\*   - dayofweek.mode()[0] raises KeyError when no timestamp is valid.
extract_features(txs, w, clock) ==
    LET df == convert_types(txs)
    IN  IF df_empty(txs)
        THEN [raised |-> NoError, features |-> EmptyDict]
        ELSE IF missing_fields(txs) # {}
        THEN [raised |-> [type |-> "ValueError", missing |-> missing_fields(txs)]]
        ELSE IF "input" \notin Columns(txs)
        THEN [raised |-> Error("KeyError")]
        ELSE IF Valid(df, "timeStamp") = {}
        THEN [raised |-> Error("KeyError")]
        ELSE [raised |-> NoError, features |-> features_dict(df, w, Columns(txs), clock)]

\* One call  service.extract_features(transactions, wallet_address).
ExtractFeatures ==
    /\ calls < MaxCalls
    /\ \E r \in {extract_features(transactions, wallet_address, now)} :
           /\ raised' = r.raised
           /\ features' = IF r.raised = NoError THEN r.features ELSE NotCalled
    /\ calls' = calls + 1
    /\ last_call' = "extract_features"
    /\ UNCHANGED <<transactions, wallet_address, now, time_series, score, cache, evaluations, log>>

(***************************************************************************)
(* extract_time_series_data                                                *)
(***************************************************************************)
\* float(x / 1e18)
ts_wei_to_eth(x) == wei_to_eth(x)

\* set(sent_df['to'].dropna().unique()) | set(recv_df['from'].dropna().unique())
\* (the address columns hold strings, so dropna drops nothing).
bucket_counterparties(sent_df, recv_df) ==
    {sent_df[i].to : i \in 1..Len(sent_df)} \cup {recv_df[i].from : i \in 1..Len(recv_df)}

\* The period of a row: Num(ordinal) or NaN (NaT).
row_month(r) == IF IsNum(r.timeStamp) THEN Num(month_ordinal(month_of(r.timeStamp.val))) ELSE NaN
row_week(r)  == IF IsNum(r.timeStamp) THEN Num(week_of(r.timeStamp.val)) ELSE NaN

\* sorted(df['month'].unique()): the valid periods ascending; a NaT among
\* them compares False with everything and is listed where it was met, which
\* matters only when every row is NaT (the list is then [NaT]).
\* periods is the period column (one period per row).
unique_periods(periods) ==
    LET valid == {periods[i].val : i \in {j \in 1..Len(periods) : IsNum(periods[j])}}
    IN  IF valid = {} /\ Len(periods) > 0 THEN <<NaN>>
        ELSE LET ordered == sorted(valid)
             IN  [i \in 1..Len(ordered) |-> Num(ordered[i])]

month_column(df) == [i \in 1..Len(df) |-> row_month(df[i])]
week_column(df)  == [i \in 1..Len(df) |-> row_week(df[i])]

\* df[df['month'] == month], df[df['week'] == week]: NaT equals nothing,
\* itself included.
month_rows(df, p) == SelectSeq(df, LAMBDA r : IsNum(p) /\ row_month(r) = p)
week_rows(df, p)  == SelectSeq(df, LAMBDA r : IsNum(p) /\ row_week(r) = p)

\* str(month): the year and month of the period, "NaT" for NaT.
month_str(p) ==
    IF IsNum(p) THEN <<p.val \div 12, (p.val % 12) + 1>> ELSE <<"NaT">>

monthly_entry(df, w, month) ==
    LET month_df == month_rows(df, month)
        sent_df  == outgoing_txs(month_df, w)
        recv_df  == incoming_txs(month_df, w)
    IN  [month        |-> month_str(month),
         tx_count     |-> Len(month_df),
         tx_sent      |-> Len(sent_df),
         tx_received  |-> Len(recv_df),
         eth_sent     |-> ts_wei_to_eth(Num(col_sum(sent_df, "value"))),
         eth_received |-> ts_wei_to_eth(Num(col_sum(recv_df, "value"))),
         net_eth      |-> Num(ts_wei_to_eth(Num(col_sum(recv_df, "value"))).val
                              - ts_wei_to_eth(Num(col_sum(sent_df, "value"))).val),
         unique_counterparties |-> Cardinality(bucket_counterparties(sent_df, recv_df)),
         avg_tx_value |-> IF Len(month_df) > 0
                          THEN ts_wei_to_eth(col_mean(month_df, "value"))
                          ELSE Num(0),
         failed_tx    |-> failed_count(month_df)]

MonthlyKeep == 24

monthly_series(df, w) ==
    LET unique_months == unique_periods(month_column(df))
    IN  last_n([i \in 1..Len(unique_months) |-> monthly_entry(df, w, unique_months[i])],
               MonthlyKeep)

\* str(week): the Monday of the week (its day number), "NaT" for NaT.
week_str(p) == IF IsNum(p) THEN <<p.val, p.val + 6>> ELSE <<"NaT">>

weekly_entry(df, w, week) ==
    LET week_df == week_rows(df, week)
        sent_df == outgoing_txs(week_df, w)
        recv_df == incoming_txs(week_df, w)
    IN  [week       |-> week_str(week),
         tx_count   |-> Len(week_df),
         eth_volume |-> ts_wei_to_eth(Num(col_sum(week_df, "value"))),
         unique_counterparties |-> Cardinality(bucket_counterparties(sent_df, recv_df))]

WeeklyKeep == 52

weekly_series(df, w) ==
    LET unique_weeks == unique_periods(week_column(df))
    IN  last_n([i \in 1..Len(unique_weeks) |-> weekly_entry(df, w, unique_weeks[i])],
               WeeklyKeep)

DailyWindowDays == 365

\* The window cut on whole dates: every row of the date 365 days back is
\* taken, whatever its time of day.
daily_activity_whole_days(df, clock) ==
    LET one_year_ago == clock - DailyWindowDays * SecondsPerDay
        recent_df == SelectSeq(df, LAMBDA r : /\ IsNum(r.timeStamp)
                                              /\ day_of(r.timeStamp.val) >= day_of(one_year_ago))
        dates == sorted({day_of(recent_df[i].timeStamp.val) : i \in 1..Len(recent_df)})
    IN  [i \in 1..Len(dates) |->
            [date  |-> dates[i],
             count |-> count_true([k \in 1..Len(recent_df) |-> day_of(recent_df[k].timeStamp.val) = dates[i]])]]

\* Rows with timeStamp >= now - 365 days, grouped by date, ascending.
daily_activity(df, clock) ==
    LET one_year_ago == clock - DailyWindowDays * SecondsPerDay
        recent_df == SelectSeq(df, LAMBDA r : IsNum(r.timeStamp) /\ r.timeStamp.val >= one_year_ago)
        dates == sorted({day_of(recent_df[i].timeStamp.val) : i \in 1..Len(recent_df)})
    IN  [i \in 1..Len(dates) |->
            [date  |-> dates[i],
             count |-> count_true([k \in 1..Len(recent_df) |-> day_of(recent_df[k].timeStamp.val) = dates[i]])]]

\* value_counts().sort_index() of a column of integers (NaN dropped
\* beforehand): the distinct values ascending, each with its count.
value_counts_sorted(column) ==
    LET keys == sorted({column[i] : i \in 1..Len(column)})
    IN  [i \in 1..Len(keys) |->
            [key   |-> keys[i],
             count |-> count_true([k \in 1..Len(column) |-> column[k] = keys[i]])]]

\* The rows with a valid timestamp.
valid_time_rows(df) == SelectSeq(df, LAMBDA r : IsNum(r.timeStamp))

hourly_distribution(df) ==
    LET valid_df == valid_time_rows(df)
        hourly_dist == value_counts_sorted([i \in 1..Len(valid_df) |-> hour_of(valid_df[i].timeStamp.val)])
    IN  [i \in 1..Len(hourly_dist) |-> [hour |-> hourly_dist[i].key, count |-> hourly_dist[i].count]]

weekday_names == <<"Monday", "Tuesday", "Wednesday", "Thursday", "Friday", "Saturday", "Sunday">>

weekday_distribution(df) ==
    LET valid_df == valid_time_rows(df)
        weekday_dist == value_counts_sorted([i \in 1..Len(valid_df) |-> dayofweek(valid_df[i].timeStamp.val)])
    IN  [i \in 1..Len(weekday_dist) |->
            [day     |-> weekday_names[weekday_dist[i].key + 1],
             day_num |-> weekday_dist[i].key,
             count   |-> weekday_dist[i].count]]

\* Bucket bounds in ETH; the last bucket has no upper bound.
buckets == <<Dec(0, 0), Dec(0, 10), Dec(0, 100), Dec(0, 1000), Dec(1, 0), Dec(10, 0), Dec(100, 0)>>

bucket_labels == <<"<0.001", "0.001-0.01", "0.01-0.1", "0.1-1", "1-10", "10-100", ">100">>

\* in_bucket with the upper bound of a bucket counted in.
in_bucket_closed(r, i) ==
    /\ IsNum(r.value)
    /\ wei_to_eth(r.value).val >= buckets[i]
    /\ i < Len(buckets) => wei_to_eth(r.value).val <= buckets[i + 1]

\* eth_values = df['value'] / 1e18;  (eth_values >= lo) & (eth_values < hi)
in_bucket(r, i) ==
    /\ IsNum(r.value)
    /\ wei_to_eth(r.value).val >= buckets[i]
    /\ i < Len(buckets) => wei_to_eth(r.value).val < buckets[i + 1]

value_distribution(df) ==
    [i \in 1..Len(bucket_labels) |->
        [bucket |-> bucket_labels[i],
         count  |-> count_true([k \in 1..Len(df) |-> in_bucket(df[k], i)])]]

\* The loop over unique_months up to and including the i-th month: one
\* entry a month, holding the totals run up over the months so far.
cumulative_data(df, w, unique_months, i) ==
    LET month_df(k) == month_rows(df, unique_months[k])
        tx      == [k \in 1..i |-> Len(month_df(k))]
        eth_in  == [k \in 1..i |->
                       ts_wei_to_eth(Num(col_sum(incoming_txs(month_df(k), w), "value"))).val]
        eth_out == [k \in 1..i |->
                       ts_wei_to_eth(Num(col_sum(outgoing_txs(month_df(k), w), "value"))).val]
    IN  [k \in 1..i |->
            [month              |-> month_str(unique_months[k]),
             cumulative_tx      |-> SumSeq(SubSeq(tx, 1, k)),
             cumulative_eth_in  |-> Num(SumSeq(SubSeq(eth_in, 1, k))),
             cumulative_eth_out |-> Num(SumSeq(SubSeq(eth_out, 1, k))),
             cumulative_net     |-> Num(SumSeq(SubSeq(eth_in, 1, k))
                                           - SumSeq(SubSeq(eth_out, 1, k)))]]

cumulative_series(df, w) ==
    LET unique_months == unique_periods(month_column(df))
    IN  cumulative_data(df, w, unique_months, Len(unique_months))

\* The dict returned for an empty frame.
empty_time_series ==
    [monthly |-> <<>>, weekly |-> <<>>, daily_activity |-> <<>>,
     hourly_distribution |-> <<>>, weekday_distribution |-> <<>>]

\* weekday_names[day] raises TypeError when day is a float: dt.dayofweek is
\* a float column as soon as one timestamp is NaT among valid ones.
weekday_index_is_float(df) ==
    /\ Valid(df, "timeStamp") # {}
    /\ \E i \in 1..Len(df) : ~IsNum(df[i].timeStamp)

\* The dict returned, or the exception raised, by
\* extract_time_series_data(txs, w) at the clock reading clock.  No column
\* is checked before it is read: a missing one raises KeyError.
extract_time_series_data(txs, w, clock) ==
    LET df == convert_types(txs)
    IN  IF df_empty(txs)
        THEN [raised |-> NoError, time_series |-> empty_time_series]
        ELSE IF missing_fields(txs) # {}
        THEN [raised |-> Error("KeyError")]
        ELSE IF weekday_index_is_float(df)
        THEN [raised |-> Error("TypeError")]
        ELSE [raised |-> NoError,
              time_series |->
                [monthly              |-> monthly_series(df, w),
                 weekly               |-> weekly_series(df, w),
                 daily_activity       |-> daily_activity(df, clock),
                 hourly_distribution  |-> hourly_distribution(df),
                 weekday_distribution |-> weekday_distribution(df),
                 value_distribution   |-> value_distribution(df),
                 cumulative           |-> cumulative_series(df, w)]]

\* One call  service.extract_time_series_data(transactions, wallet_address).
ExtractTimeSeries ==
    /\ calls < MaxCalls
    /\ \E r \in {extract_time_series_data(transactions, wallet_address, now)} :
           /\ raised' = r.raised
           /\ time_series' = IF r.raised = NoError THEN r.time_series ELSE NotCalled
    /\ calls' = calls + 1
    /\ last_call' = "extract_time_series_data"
    /\ UNCHANGED <<transactions, wallet_address, now, features, score, cache, evaluations, log>>

(***************************************************************************)
(* Transaction lists handed to the service                                 *)
(***************************************************************************)
\* 2021-01-01 00:00:00 UTC, the timestamp of test_extract_features_minimal.
T0 == 1609459200
\* 45 days and one hour later, and five seconds after that.
T1 == T0 + 45 * SecondsPerDay + 3600
T2 == T1 + 5

OneEth == WeiPerEth

Tx(t, v, fr, to, inp, err) ==
    [timeStamp |-> t, value |-> v, from |-> Str(fr), to |-> Str(to),
     input |-> Str(inp), isError |-> err]

\* The transaction of test_extract_features_minimal.
MinimalTx == Tx(Num(T0), Num(OneEth), "0xabc", "0xdef", "", Num(0))

TxPool ==
    {MinimalTx,
     \* as Etherscan sends them: digit strings, mixed-case addresses
     Tx(NumStr(T1), NumStr(2 * OneEth), "0xDEF", "0xABC", "0xa9059cbb", NumStr(1)),
     Tx(NumStr(T2), NumStr(0), "0xABC", "0xdef", "0x", NumStr(1)),
     Tx(NumStr(T1), NumStr(OneEth), "0xABC", "0xdef", "0x", NumStr(0)),
     \* between two other addresses
     Tx(NumStr(T1), NumStr(OneEth), "0xdef", "0x123", "0xc0ffee", NumStr(0)),
     \* neither input nor isError
     [timeStamp |-> NumStr(T2), value |-> NumStr(OneEth \div 2),
      from |-> Str("0xdef"), to |-> Str("0xabc")],
     \* unparsable cells
     Tx(Str("n/a"), Num(OneEth), "0xabc", "0xdef", "", Num(0)),
     Tx(NumStr(T1), Str("n/a"), "0xabc", "0xdef", "", Str("n/a")),
     \* dicts lacking fields
     EmptyDict,
     Remove(MinimalTx, "timeStamp"),
     Remove(MinimalTx, "value"),
     Remove(MinimalTx, "to")}

\* Longest transaction list.
MaxTxs == 2

TxLists == UNION {[1..n -> TxPool] : n \in 0..MaxTxs}

\* The callers lowercase the address before they hand it over.
Wallets == {"0xabc", "0xdef"}

\* Clock readings: six calendar months after T1 to the second (2021-08-15
\* 01:00:00), and 400 days after T0 (2022-02-05).
Clocks == {T1 + 181 * SecondsPerDay, T0 + 400 * SecondsPerDay}

Init ==
    /\ transactions \in TxLists
    /\ wallet_address \in Wallets
    /\ now \in Clocks
    /\ features = NotCalled
    /\ time_series = NotCalled
    /\ score = NotCalled
    /\ raised = NoError
    /\ last_call = "none"
    /\ calls = 0
    /\ EngineIdle

Next == ExtractFeatures \/ ExtractTimeSeries

Spec == Init /\ [][Next]_vars

(***************************************************************************)
(* Long transaction histories                                              *)
(***************************************************************************)
\* Longest history: one more than the weekly series keeps.
MaxHistory == 53

\* Record i of a history of n records, step days apart from T0 on.  The
\* records are listed oldest first ("ascending") or from both ends of the
\* period in turn ("interleaved": oldest, newest, second oldest, ...).  The
\* wallet 0xabc sends the odd records, which fail, and receives the even
\* ones, every other of which has an unparsable error flag; the values are
\* 0.5, 1 and 0 ETH in turn.
HistoryTx(i, n, step, order) ==
    LET pos == IF order = "ascending" THEN i - 1
               ELSE IF i % 2 = 1 THEN (i - 1) \div 2
               ELSE n - (i \div 2)
    IN  [timeStamp |-> NumStr(T0 + pos * step * SecondsPerDay),
         value     |-> NumStr(((i % 3) * OneEth) \div 2),
         from      |-> IF i % 2 = 1 THEN Str("0xabc")
                       ELSE IF i % 4 = 0 THEN Str("0x123") ELSE Str("0xDEF"),
         to        |-> IF i % 2 = 1 THEN Str("0xdef") ELSE Str("0xABC"),
         input     |-> Str("0x"),
         isError   |-> IF i % 4 = 0 THEN Str("n/a") ELSE NumStr(i % 2)]

\* Histories of a few records, of as many records as the monthly and the
\* weekly series keep and one more, a week or 31 days apart.
HistoryLists ==
    {[i \in 1..n |-> HistoryTx(i, n, step, order)] :
        n \in (0..3) \cup {MonthlyKeep, MonthlyKeep + 1, WeeklyKeep, MaxHistory},
        step \in {7, 31},
        order \in {"ascending", "interleaved"}}

InitHistory ==
    /\ transactions \in HistoryLists
    /\ wallet_address \in Wallets
    /\ now = T0 + (MaxHistory + 1) * 31 * SecondsPerDay
    /\ features = NotCalled
    /\ time_series = NotCalled
    /\ score = NotCalled
    /\ raised = NoError
    /\ last_call = "none"
    /\ calls = 0
    /\ EngineIdle

SpecHistory == InitHistory /\ [][Next]_vars

(***************************************************************************)
(* Transactions around the start of the daily window                       *)
(***************************************************************************)
\* The clock 365 days after T1 to the second: the daily window opens at T1.
DailyClock == T1 + DailyWindowDays * SecondsPerDay

DailyTx(t) == Tx(t, NumStr(OneEth), "0xabc", "0xdef", "0x", NumStr(0))

\* Records an hour before the window opens (on the date it opens), at the
\* second it opens, five seconds and a day later, long before it, after the
\* clock reading, and without a parsable time.
DailyPool ==
    {DailyTx(NumStr(T1 - 3600)), DailyTx(NumStr(T1)), DailyTx(NumStr(T2)),
     DailyTx(NumStr(T1 + SecondsPerDay)), DailyTx(Num(T0)),
     DailyTx(NumStr(DailyClock + SecondsPerDay)), DailyTx(Str("n/a"))}

DailyLists == UNION {[1..n -> DailyPool] : n \in 0..MaxTxs}

InitDaily ==
    /\ transactions \in DailyLists
    /\ wallet_address \in Wallets
    /\ now = DailyClock
    /\ features = NotCalled
    /\ time_series = NotCalled
    /\ score = NotCalled
    /\ raised = NoError
    /\ last_call = "none"
    /\ calls = 0
    /\ EngineIdle

SpecDaily == InitDaily /\ [][Next]_vars

(***************************************************************************)
(* ScoringEngine (src/app/services/scoring_engine.py)                      *)
(*                                                                         *)
(* An address handed to the engine is a Python string, written here as the *)
(* sequence of its characters.                                             *)
(***************************************************************************)
\* The characters str.strip() removes (those the addresses of the model use).
Whitespace == {" ", "\t", "\n"}

\* The letters str.lower() changes, and what it changes them to.
UpperLetters == <<"A", "B", "C", "D", "E", "F", "X", "Z">>
LowerLetters == <<"a", "b", "c", "d", "e", "f", "x", "z">>

\* The digits int(s, 16) reads in a lowercased string, in the order of their values.
HexDigits == <<"0", "1", "2", "3", "4", "5", "6", "7", "8", "9", "a", "b", "c", "d", "e", "f">>

Repeat(c, n) == [i \in 1..n |-> c]

\* address.strip()
strip(s) ==
    LET kept == {i \in 1..Len(s) : s[i] \notin Whitespace}
    IN  IF kept = {} THEN <<>>
        ELSE SubSeq(s, SetMin(kept), SetMax(kept))

\* address.startswith(prefix)
startswith(s, prefix) == Len(s) >= Len(prefix) /\ SubSeq(s, 1, Len(prefix)) = prefix

\* address.lower()
char_lower(c) ==
    IF \E i \in 1..Len(UpperLetters) : UpperLetters[i] = c
    THEN LowerLetters[CHOOSE i \in 1..Len(UpperLetters) : UpperLetters[i] = c]
    ELSE c
str_lower(s) == [i \in 1..Len(s) |-> char_lower(s[i])]

\* HTTPException(status_code=...)
HTTPException(status_code) == [type |-> "HTTPException", status_code |-> status_code]

\* _normalize_wallet_address(address): the lowercased address, or the
\* HTTPException raised.  Nothing tests the characters after the prefix.
normalize_wallet_address(address) ==
    IF address = <<>>
    THEN [raised |-> HTTPException(400)]
    ELSE IF ~startswith(strip(address), <<"0", "x">>) \/ Len(strip(address)) # 42
    THEN [raised |-> HTTPException(400)]
    ELSE [raised |-> NoError, address |-> str_lower(strip(address))]

\* _to_native(obj): a dict is rebuilt key by key with its values converted; a
\* numpy scalar becomes the Python number of the same value, which the values
\* of the model do not tell apart.
to_native(obj) == [k \in DOMAIN obj |-> obj[k]]

\* The service model writes an address by its first three digits: the
\* address 0xabc0...0 is the wallet "0xabc" of the transaction lists.
ServiceNames == [h \in {<<"a", "b", "c">>, <<"d", "e", "f">>} |->
                    IF h[1] = "a" THEN "0xabc" ELSE "0xdef"]
service_address(a) ==
    IF SubSeq(a, 3, 5) \in DOMAIN ServiceNames THEN ServiceNames[SubSeq(a, 3, 5)] ELSE "0x000"

\* OffchainDataGenerator.generate(wallet_address, features):
\*   seed = int(wallet_address[-8:], 16) % (2**31); rng = random.Random(seed)
\* int() raises ValueError for a character that is not a hex digit.  The
\* persona is drawn from rng alone, so it is a function of the seed, which
\* stands for it here.  The first digit is reduced modulo 8 before it is
\* weighed, which is the remainder modulo 2**31 of the whole.
hex_value(c) == (CHOOSE i \in 1..16 : HexDigits[i] = c) - 1
is_hex(s) == \A i \in 1..Len(s) : \E j \in 1..16 : HexDigits[j] = s[i]
int16_mod_2_31(s) ==
    (hex_value(s[1]) % 8) * 16^7
    + SumSeq([i \in 1..7 |-> hex_value(s[i + 1]) * 16^(7 - i)])
generate(a, onchain_features) ==
    LET last8 == SubSeq(a, Len(a) - 7, Len(a))
    IN  IF is_hex(last8)
        THEN [raised |-> NoError, offchain_data |-> [seed |-> int16_mod_2_31(last8)]]
        ELSE [raised |-> Error("ValueError")]

\* The dataclass ScoreComputation; card_info and message default to None.
ScoreComputation(a, credit_score, onchain_features, offchain_data, transaction_count, time_series_data, message) ==
    [wallet_address    |-> a,
     credit_score      |-> credit_score,
     onchain_features  |-> onchain_features,
     offchain_data     |-> offchain_data,
     transaction_count |-> transaction_count,
     time_series_data  |-> time_series_data,
     card_info         |-> None,
     message           |-> message]

\* The result for a wallet without transactions.
empty_result(a) ==
    ScoreComputation(a, Float(0), EmptyDict, EmptyDict, 0, None,
                     "No transaction history found for this wallet")

\* evaluate_wallet from the return of the fetch to the result, the cache
\* left aside: the ScoreComputation built for the address a from the fetched
\* transactions txs at the clock reading clock, or the exception a
\* collaborator raised on the way.
score_fetched(a, txs, clock) ==
    IF txs = <<>>
    THEN [raised |-> NoError, result |-> empty_result(a)]
    ELSE TheOnly({
        IF ef.raised # NoError THEN [raised |-> ef.raised]
        ELSE TheOnly({
            IF sc.raised # NoError THEN [raised |-> sc.raised]
            ELSE TheOnly({
                IF ts.raised # NoError THEN [raised |-> ts.raised]
                ELSE TheOnly({
                    IF og.raised # NoError THEN [raised |-> og.raised]
                    ELSE [raised |-> NoError,
                          result |-> ScoreComputation(a, Float(sc.score), to_native(ef.features),
                                                      og.offchain_data, Len(txs),
                                                      to_native(ts.time_series), None)] :
                    og \in {generate(a, to_native(ef.features))}}) :
                ts \in {extract_time_series_data(txs, service_address(a), clock)}}) :
            sc \in {calculate_scorecard_credit_score(to_native(ef.features))}}) :
        ef \in {extract_features(txs, service_address(a), clock)}})

\* InMemoryTTLCache (app/services/cache.py): a store of values by key that
\* holds an entry until its time to live has run out.  get returns the value
\* held under the key, or None when there is none or its time has run out;
\* set stores the value under the key with a new time to live.
InMemoryTTLCache(entries) == [tag |-> "InMemoryTTLCache", entries |-> entries]
cache_holds(c, key) == key \in DOMAIN c.entries /\ ~c.entries[key].expired
cache_get(c, key) == IF cache_holds(c, key) THEN c.entries[key].value ELSE None
cache_set(c, key, value) ==
    InMemoryTTLCache(Override(c.entries, key, [value |-> value, expired |-> FALSE]))
cache_expire(c, key) ==
    InMemoryTTLCache(Override(c.entries, key, [c.entries[key] EXCEPT !.expired = TRUE]))

\* The address 0x<head>0...0<tail> of 42 characters.
Address(head, tail) ==
    <<"0", "x">> \o head \o Repeat("0", 40 - Len(head) - Len(tail)) \o tail

AddressABC == Address(<<"a", "b", "c">>, <<"a", "b", "c">>)
AddressDEF == Address(<<"d", "e", "f">>, <<"f", "f", "f", "f", "f", "d", "e", "f">>)

\* The addresses handed to evaluate_wallet: two wallets; the first in
\* capitals and padded with whitespace, and with the prefix 0X; 42 characters
\* that are no hex digits; a string a character short; 42 characters without
\* a prefix; blanks; the empty string.
EngineAddresses ==
    {AddressABC,
     AddressDEF,
     <<" ">> \o Address(<<"A", "B", "C">>, <<"A", "b", "C">>) \o <<"\n">>,
     <<"0", "X">> \o SubSeq(AddressABC, 3, 42),
     <<"0", "x">> \o Repeat("z", 40),
     SubSeq(AddressABC, 1, 41),
     SubSeq(AddressABC, 3, 42) \o <<"0", "0">>,
     <<" ", " ">>,
     <<>>}

\* The lists fetch_transactions returns: none; the transaction of
\* test_extract_features_minimal; two transactions as Etherscan sends them; a
\* record without 'value'.
FetchedLists ==
    {<<>>,
     <<MinimalTx>>,
     <<Tx(NumStr(T1), NumStr(2 * OneEth), "0xDEF", "0xABC", "0xa9059cbb", NumStr(1)),
       Tx(NumStr(T2), NumStr(0), "0xABC", "0xdef", "0x", NumStr(1))>>,
     <<Remove(MinimalTx, "value")>>}

\* The clock of the engine's calls.
EngineClock == T0 + 400 * SecondsPerDay

\* The addresses of EngineAddresses that evaluate_wallet accepts, normalized.
AcceptedAddresses ==
    {normalize_wallet_address(address).address :
         address \in {x \in EngineAddresses : normalize_wallet_address(x).raised = NoError}}

\* score_fetched at the engine's clock, worked out once for each accepted
\* address and each fetched list.
ScoredAtEngineClock ==
    [a \in AcceptedAddresses |-> [txs \in FetchedLists |-> score_fetched(a, txs, EngineClock)]]

\* score_fetched(a, txs, now), looked up where it has been worked out.
scored(a, txs) ==
    IF now = EngineClock /\ a \in AcceptedAddresses /\ txs \in FetchedLists
    THEN ScoredAtEngineClock[a][txs]
    ELSE score_fetched(a, txs, now)

\* One collaborator call: the operation and the address it is handed.
LogEntry(op, key) == [op |-> op, key |-> key]

\* The calls are numbered in the order in which they are made.
NextCall(t) == evaluations[t].pc = "idle" /\ \A u \in 1..t - 1 : evaluations[u].pc # "idle"

\* The calls waiting for their fetch.
Fetching == {u \in Evaluations : evaluations[u].pc = "fetch"}

\* evaluate_wallet(address) up to the await: the address is normalized; a
\* held cache entry is returned; otherwise the fetch is issued.
EvaluateWallet ==
    \E t \in Evaluations, address \in EngineAddresses :
        /\ NextCall(t)
        /\ \E n \in {normalize_wallet_address(address)} :
               IF n.raised # NoError
               THEN /\ evaluations' = [evaluations EXCEPT ![t] =
                           [@ EXCEPT !.pc = "raised", !.wallet_address = address,
                                     !.raised = n.raised, !.alongside = Fetching]]
                    /\ log' = log
               ELSE IF cache # NoCache /\ cache_get(cache, n.address) # None
               THEN /\ evaluations' = [evaluations EXCEPT ![t] =
                           [@ EXCEPT !.pc = "returned", !.wallet_address = address,
                                     !.normalized_address = n.address,
                                     !.result = cache_get(cache, n.address),
                                     !.alongside = Fetching]]
                    /\ log' = [log EXCEPT ![t] = <<LogEntry("cache.get", n.address)>>]
               ELSE /\ evaluations' = [evaluations EXCEPT ![t] =
                           [@ EXCEPT !.pc = "fetch", !.wallet_address = address,
                                     !.normalized_address = n.address,
                                     !.alongside = Fetching]]
                    /\ log' = [log EXCEPT ![t] =
                                  (IF cache # NoCache
                                   THEN <<LogEntry("cache.get", n.address)>>
                                   ELSE <<>>)
                                  \o <<LogEntry("fetch", n.address)>>]
        /\ UNCHANGED <<cache, service_vars>>

\* FetchReturns with the result cached under the address as it was handed in
\* instead of the normalized address.
FetchReturnsRawKey ==
    \E t \in Evaluations, txs \in FetchedLists :
        /\ evaluations[t].pc = "fetch"
        /\ \E a \in {evaluations[t].normalized_address} :
           \E r \in {scored(a, txs)} :
               /\ evaluations' = [evaluations EXCEPT ![t] =
                      IF r.raised = NoError
                      THEN [@ EXCEPT !.pc = "returned", !.transactions = txs, !.result = r.result]
                      ELSE [@ EXCEPT !.pc = "raised", !.transactions = txs, !.raised = r.raised]]
               /\ cache' = IF r.raised = NoError /\ cache # NoCache
                           THEN cache_set(cache, evaluations[t].wallet_address, r.result)
                           ELSE cache
               /\ log' = [log EXCEPT ![t] =
                             @ \o (IF txs # <<>>
                                   THEN <<LogEntry("extract_features", a)>>
                                   ELSE <<>>)
                               \o (IF r.raised = NoError /\ cache # NoCache
                                   THEN <<LogEntry("cache.set", evaluations[t].wallet_address)>>
                                   ELSE <<>>)]
        /\ UNCHANGED service_vars

\* FetchReturns with the normalized address kept in a field of the engine
\* instead of a local variable: the call resumes with the address of the call
\* that was accepted last.
FetchReturnsSharedAddress ==
    \E t \in Evaluations, txs \in FetchedLists :
        /\ evaluations[t].pc = "fetch"
        /\ \E a \in {evaluations[SetMax({u \in Evaluations :
                                             evaluations[u].normalized_address # <<>>})]
                         .normalized_address} :
           \E r \in {scored(a, txs)} :
               /\ evaluations' = [evaluations EXCEPT ![t] =
                      IF r.raised = NoError
                      THEN [@ EXCEPT !.pc = "returned", !.transactions = txs, !.result = r.result]
                      ELSE [@ EXCEPT !.pc = "raised", !.transactions = txs, !.raised = r.raised]]
               /\ cache' = IF r.raised = NoError /\ cache # NoCache
                           THEN cache_set(cache, a, r.result)
                           ELSE cache
               /\ log' = [log EXCEPT ![t] =
                             @ \o (IF txs # <<>>
                                   THEN <<LogEntry("extract_features", a)>>
                                   ELSE <<>>)
                               \o (IF r.raised = NoError /\ cache # NoCache
                                   THEN <<LogEntry("cache.set", a)>>
                                   ELSE <<>>)]
        /\ UNCHANGED service_vars

\* The awaited fetch_transactions returns txs and evaluate_wallet runs to its
\* end: the result is built, stored in the cache and returned, or a
\* collaborator raises.
FetchReturns ==
    \E t \in Evaluations, txs \in FetchedLists :
        /\ evaluations[t].pc = "fetch"
        /\ \E a \in {evaluations[t].normalized_address} :
           \E r \in {scored(a, txs)} :
               /\ evaluations' = [evaluations EXCEPT ![t] =
                      IF r.raised = NoError
                      THEN [@ EXCEPT !.pc = "returned", !.transactions = txs, !.result = r.result]
                      ELSE [@ EXCEPT !.pc = "raised", !.transactions = txs, !.raised = r.raised]]
               /\ cache' = IF r.raised = NoError /\ cache # NoCache
                           THEN cache_set(cache, a, r.result)
                           ELSE cache
               /\ log' = [log EXCEPT ![t] =
                             @ \o (IF txs # <<>>
                                   THEN <<LogEntry("extract_features", a)>>
                                   ELSE <<>>)
                               \o (IF r.raised = NoError /\ cache # NoCache
                                   THEN <<LogEntry("cache.set", a)>>
                                   ELSE <<>>)]
        /\ UNCHANGED service_vars

\* The awaited fetch_transactions raises RuntimeError (an HTTP status other
\* than 200, an API error, an unexpected response).
FetchRaises ==
    \E t \in Evaluations :
        /\ evaluations[t].pc = "fetch"
        /\ evaluations' = [evaluations EXCEPT ![t] =
               [@ EXCEPT !.pc = "raised", !.raised = Error("RuntimeError")]]
        /\ UNCHANGED <<cache, log, service_vars>>

\* The time to live of a cache entry runs out.
Expire ==
    /\ cache # NoCache
    /\ \E key \in DOMAIN cache.entries :
           /\ cache_holds(cache, key)
           /\ cache' = cache_expire(cache, key)
    /\ UNCHANGED <<evaluations, log, service_vars>>

\* The engine with and without a cache, before its first call.
InitEngine ==
    /\ cache \in {NoCache, InMemoryTTLCache(EmptyDict)}
    /\ evaluations = [t \in Evaluations |-> IdleCall]
    /\ log = [t \in Evaluations |-> <<>>]
    /\ transactions = <<>>
    /\ wallet_address = "0xabc"
    /\ now = EngineClock
    /\ features = NotCalled
    /\ time_series = NotCalled
    /\ score = NotCalled
    /\ raised = NoError
    /\ last_call = "none"
    /\ calls = 0

NextEngine == EvaluateWallet \/ FetchReturns \/ FetchRaises \/ Expire

SpecEngine == InitEngine /\ [][NextEngine]_vars

(***************************************************************************)
(* get_grade_info (src/app/api/routes/web.py)                              *)
(*                                                                         *)
(* Scores and band bounds are counted in units of 1/Scale like the         *)
(* features, so that a score between two whole numbers can be told from    *)
(* both.                                                                   *)
(***************************************************************************)
Grade(grade, min_score, max_score, risk_category, expected_bad_rate) ==
    [grade |-> grade, min_score |-> Dec(min_score, 0), max_score |-> Dec(max_score, 0),
     risk_category |-> risk_category, expected_bad_rate |-> expected_bad_rate]

GRADE_TABLE ==
    <<Grade(1, 700, 1000, "Ultra Low Risk (A++)", Dec(0, 0)),
      Grade(2, 653, 699, "Very Low Risk (A+)", Dec(1, 7000)),
      Grade(3, 600, 652, "Low Risk (A)", Dec(2, 7000)),
      Grade(4, 570, 599, "Moderate Risk (B)", Dec(4, 6000)),
      Grade(5, 528, 569, "High Risk (C)", Dec(17, 3000)),
      Grade(6, 0, 527, "Very High Risk (C-)", Dec(40, 4000))>>

\* {**grade, "meter_percent": meter_percent}
with_meter(grade, percent) ==
    [k \in DOMAIN grade \cup {"meter_percent"} |->
        IF k = "meter_percent" THEN percent ELSE grade[k]]

\* min(100, max(0, (score / 1000) * 100))
meter_percent(x) ==
    LET p == x \div 10
    IN  IF p < 0 THEN 0 ELSE IF p > Dec(100, 0) THEN Dec(100, 0) ELSE p

\* get_grade_info with a band entered only above its lower bound.
get_grade_info_above(x) ==
    LET matching == {i \in 1..Len(GRADE_TABLE) :
                        GRADE_TABLE[i].min_score < x /\ x <= GRADE_TABLE[i].max_score}
    IN  IF matching # {}
        THEN with_meter(GRADE_TABLE[SetMin(matching)], meter_percent(x))
        ELSE with_meter(GRADE_TABLE[Len(GRADE_TABLE)], 0)

\* get_grade_info(score) for the score x: the first band of the table with
\* min_score <= score <= max_score, with the meter position; the last band
\* with meter_percent 0 when no band matches.
get_grade_info(x) ==
    LET matching == {i \in 1..Len(GRADE_TABLE) :
                        GRADE_TABLE[i].min_score <= x /\ x <= GRADE_TABLE[i].max_score}
    IN  IF matching # {}
        THEN with_meter(GRADE_TABLE[SetMin(matching)], meter_percent(x))
        ELSE with_meter(GRADE_TABLE[Len(GRADE_TABLE)], 0)

(***************************************************************************)
(* Feature dicts handed to the scorecard                                   *)
(***************************************************************************)
ScorecardFeatures ==
    <<"account_age_days", "avg_tx_value", "tx_count_6m", "unique_counterparties",
      "contract_interactions", "largest_outgoing_tx", "months_with_tx",
      "tx_value_skewness", "total_transactions">>

ScorecardNames == {ScorecardFeatures[i] : i \in 1..Len(ScorecardFeatures)}

\* The feature dict of test_calculate_scorecard_credit_score_basic.
BasicFeatures ==
    [account_age_days |-> Num(Dec(600, 0)), avg_tx_value |-> Num(Dec(0, 200)),
     tx_count_6m |-> Num(Dec(5, 0)), unique_counterparties |-> Num(Dec(10, 0)),
     contract_interactions |-> Num(Dec(3, 0)), largest_outgoing_tx |-> Num(Dec(50, 0)),
     months_with_tx |-> Num(Dec(20, 0)), tx_value_skewness |-> Num(Dec(10, 0)),
     total_transactions |-> Num(Dec(100, 0))]

\* The scorecard of the specification (section 4.4): per feature, the
\* exclusive upper bounds of its bins, in listed order, with their points, and
\* the points of the catch-all bin.  account_age_days is listed by its bounds
\* in days (months * 30).
SpecBins ==
    [account_age_days      |-> <<<<Dec(18 * 30, 0), 54>>, <<Dec(54 * 30, 0), 57>>>>,
     avg_tx_value          |-> <<<<Dec(0, 6), 25>>, <<Dec(0, 181), 45>>, <<Dec(4, 1449), 64>>>>,
     tx_count_6m           |-> <<<<Dec(1, 0), 57>>, <<Dec(3, 0), 93>>>>,
     unique_counterparties |-> <<<<Dec(8, 0), 49>>, <<Dec(1881, 0), 60>>>>,
     contract_interactions |-> <<<<Dec(2, 0), 36>>, <<Dec(19, 0), 51>>, <<Dec(83, 0), 66>>,
                                 <<Dec(1974, 0), 74>>>>,
     largest_outgoing_tx   |-> <<<<Dec(12, 8000), 57>>, <<Dec(206, 2000), 62>>>>,
     months_with_tx        |-> <<<<Dec(18, 0), 59>>, <<Dec(37, 0), 66>>, <<Dec(67, 0), 68>>>>,
     tx_value_skewness     |-> <<<<Dec(4, 5473), 51>>, <<Dec(14, 6823), 62>>,
                                 <<Dec(66, 3151), 67>>>>,
     total_transactions    |-> <<<<Dec(19, 0), 44>>, <<Dec(2508, 0), 59>>,
                                 <<Dec(4594, 0), 61>>>>]

SpecCatchAll ==
    [account_age_days |-> 88, avg_tx_value |-> 77, tx_count_6m |-> 131,
     unique_counterparties |-> 78, contract_interactions |-> 84,
     largest_outgoing_tx |-> 70, months_with_tx |-> 77, tx_value_skewness |-> 72,
     total_transactions |-> 71]

\* Values a feature is given: each bin bound, the value just below it, the
\* value just below zero, and the two non-numbers.
FeatureValues(n) ==
    {None, NaN, Num(0 - 1)}
        \cup {Num(SpecBins[n][i][1]) : i \in 1..Len(SpecBins[n])}
        \cup {Num(SpecBins[n][i][1] - 1) : i \in 1..Len(SpecBins[n])}

AllLowFeatures  == [n \in ScorecardNames |-> Num(0)]
AllHighFeatures == [n \in ScorecardNames |-> Num(Dec(5000 * 30, 0))]

BaseFeatures == {BasicFeatures, AllLowFeatures, AllHighFeatures, EmptyDict}

\* Number of entries in which a feature dict may differ from a base dict.
MaxOverrides == 1

RECURSIVE Overridden(_)
Overridden(k) ==
    IF k = 0 THEN BaseFeatures
    ELSE LET prev == Overridden(k - 1)
         IN  prev
               \cup UNION {{Override(f, n, v) : v \in FeatureValues(n)} :
                               <<f, n>> \in prev \X ScorecardNames}
               \cup {Remove(f, n) : <<f, n>> \in prev \X ScorecardNames}

FeatureInputs == Overridden(MaxOverrides)

InitScore ==
    /\ features \in FeatureInputs
    /\ transactions = <<>>
    /\ wallet_address = "0xabc"
    /\ now = T0
    /\ time_series = NotCalled
    /\ score = NotCalled
    /\ raised = NoError
    /\ last_call = "none"
    /\ calls = 0
    /\ EngineIdle

NextScore == ScorecardCall

SpecScore == InitScore /\ [][NextScore]_vars

\* The same feature dicts handed to calculate_credit_score.
NextCredit == CreditScoreCall

SpecCredit == InitScore /\ [][NextCredit]_vars

(***************************************************************************)
(* Properties of the scorecard (under SpecScore)                           *)
(***************************************************************************)
RECURSIVE FirstBin(_, _, _, _)
FirstBin(bins, i, x, catchall) ==
    IF i > Len(bins) THEN catchall
    ELSE IF x < bins[i][1] THEN bins[i][2]
    ELSE FirstBin(bins, i + 1, x, catchall)

\* Points the specification's table gives feature n at the numeric value x.
SpecPoints(n, x) == FirstBin(SpecBins[n], 1, x, SpecCatchAll[n])

RECURSIVE SpecSum(_, _)
SpecSum(f, i) ==
    IF i = 0 THEN 0
    ELSE SpecSum(f, i - 1) + SpecPoints(ScorecardFeatures[i], f[ScorecardFeatures[i]].val)

AllNumeric(f) == \A n \in ScorecardNames : n \in DOMAIN f /\ IsNum(f[n])

Returned == calls > 0 /\ raised = NoError

\* C1: for every feature dict whose nine scorecard features are present and
\* numeric, every call (the first and each repeated one) returns exactly the
\* sum, over the nine features, of the points of the first listed bin whose
\* exclusive upper bound is strictly greater than the value, the last bin
\* being the catch-all, with the bounds and points of the table of section 4.4.
C1_ScoreIsSumOfFirstBins ==
    (calls > 0 /\ AllNumeric(features)) =>
        /\ raised = NoError
        /\ score = Float(SpecSum(features, Len(ScorecardFeatures)))

\* A repeated call on a dict that has a value exactly on a bin bound, which
\* therefore belongs to the next bin.
C1_Witness ==
    /\ calls = MaxCalls
    /\ AllNumeric(features)
    /\ features["avg_tx_value"] = Num(Dec(0, 181))
    /\ avg_tx_value_points(features) = 64
    /\ score = Float(SpecSum(features, Len(ScorecardFeatures)))

\* C2 as stated: the basic feature dict scores 606.
C2_BasicScores606 ==
    (calls > 0 /\ features = BasicFeatures) => score = Float(606)

\* C2 amended: the basic feature dict {account_age_days: 600, avg_tx_value:
\* 0.02, tx_count_6m: 5, unique_counterparties: 10, contract_interactions: 3,
\* largest_outgoing_tx: 50, months_with_tx: 20, tx_value_skewness: 10,
\* total_transactions: 100} scores 612 = 57+64+131+60+51+62+66+62+59, one
\* addend per feature in table order.
C2_BasicScores612 ==
    (calls > 0 /\ features = BasicFeatures) =>
        /\ raised = NoError
        /\ score = Float(57 + 64 + 131 + 60 + 51 + 62 + 66 + 62 + 59)
        /\ score = Float(612)
        /\ account_age_points(features) = 57
        /\ avg_tx_value_points(features) = 64
        /\ tx_count_6m_points(features) = 131
        /\ unique_counterparties_points(features) = 60
        /\ contract_interactions_points(features) = 51
        /\ largest_outgoing_tx_points(features) = 62
        /\ months_with_tx_points(features) = 66
        /\ tx_value_skewness_points(features) = 62
        /\ total_transactions_points(features) = 59

C2_Witness == calls > 0 /\ features = BasicFeatures /\ score # NotCalled

\* Largest point value the specification's table lists for feature n.
SpecMaxPoints(n) ==
    LET pts == {SpecBins[n][i][2] : i \in 1..Len(SpecBins[n])} \cup {SpecCatchAll[n]}
    IN  CHOOSE p \in pts : \A q \in pts : q <= p

RECURSIVE SpecMaxSum(_)
SpecMaxSum(i) ==
    IF i = 0 THEN 0 ELSE SpecMaxSum(i - 1) + SpecMaxPoints(ScorecardFeatures[i])

\* C3 as stated: no returned score exceeds the stated bound of 708.
C3_ScoreAtMost708 == Returned => score.val <= 708

\* C3 amended: no returned score exceeds the sum of the nine features' maximum
\* bin points, which is 748 (not about 708); the bound is reached, and comes
\* from the bins alone (no clamping is applied).
C3_ScoreAtMostMaxSum ==
    /\ SpecMaxSum(Len(ScorecardFeatures)) = 748
    /\ Returned => score.val <= SpecMaxSum(Len(ScorecardFeatures))

C3_Witness == Returned /\ score = Float(748)

\* The bin a feature falls back to when it has no value: the documented null
\* bin of tx_value_skewness, the bin of the default 0 for the others.
FallbackPoints(n) == IF n = "tx_value_skewness" THEN 46 ELSE SpecBins[n][1][2]

\* C4 as stated: a feature dict in which a scorecard feature is missing or
\* null is scored without raising, the feature contributing its fallback bin
\* (the lowest bin for a feature with default 0, 46 for tx_value_skewness).
C4_MissingOrNullIsScored ==
    calls > 0 =>
        \A n \in ScorecardNames :
            (n \notin DOMAIN features \/ features[n] = None) =>
                /\ raised = NoError
                /\ feature_points(features, n) = FallbackPoints(n)

(***************************************************************************)
(* Properties of calculate_credit_score (under SpecCredit)                 *)
(***************************************************************************)
\* C17 as stated: calculate_credit_score returns a number within [0, 1000]
\* for every feature dict, with or without card_info, and 0.0 for the empty
\* dict.
C17_CreditScoreWithinRange ==
    last_call = "calculate_credit_score" =>
        /\ raised = NoError
        /\ score.tag = "float"
        /\ 0 <= score.val /\ score.val <= 1000
        /\ features = EmptyDict => score = Float(0)

(***************************************************************************)
(* Properties of extract_features and extract_time_series_data (Spec)      *)
(***************************************************************************)
ExtractedFeatures ==
    last_call = "extract_features" /\ raised = NoError /\ features # EmptyDict

\* Cells that hold the integer n, as an int or as a digit string.
IsInt(cell, n) == cell = Num(n) \/ cell = NumStr(n)

\* C5 as stated: on a non-empty list, extract_features raises the schema
\* error naming the missing fields, and produces no FeatureSet, when a
\* required field is absent from every record; it does not raise it when all
\* four fields occur.
C5_SchemaErrorIffFieldAbsent ==
    (last_call = "extract_features" /\ Len(transactions) > 0) =>
        LET absent == {f \in {"timeStamp", "value", "from", "to"} :
                          \A i \in 1..Len(transactions) : f \notin DOMAIN transactions[i]}
        IN  IF absent # {}
            THEN raised = [type |-> "ValueError", missing |-> absent] /\ features = NotCalled
            ELSE raised.type # "ValueError"

\* C6: extract_features on the empty list returns the empty FeatureSet {}
\* without raising, whatever the subject address.
C6_EmptyListGivesEmptyFeatureSet ==
    (last_call = "extract_features" /\ transactions = <<>>) =>
        raised = NoError /\ features = EmptyDict

C6_Witness ==
    /\ last_call = "extract_features"
    /\ transactions = <<>>
    /\ wallet_address = "0xdef"
    /\ features = EmptyDict

TimeSeriesNames ==
    {"monthly", "weekly", "daily_activity", "hourly_distribution",
     "weekday_distribution", "value_distribution", "cumulative"}

\* C7 as stated: extract_time_series_data on the empty list returns, without
\* raising, a TimeSeries in which all seven named sequences are present and
\* empty.
C7_EmptyListGivesSevenEmptySequences ==
    (last_call = "extract_time_series_data" /\ transactions = <<>>) =>
        /\ raised = NoError
        /\ DOMAIN time_series = TimeSeriesNames
        /\ \A k \in TimeSeriesNames : time_series[k] = <<>>

\* C8: whenever extract_features returns a FeatureSet with features, its
\* total_transactions is the number of records of the input list, records
\* with unparsable or missing fields included.
C8_TotalIsNumberOfRecords ==
    ExtractedFeatures =>
        features["total_transactions"] = Num(Dec(Len(transactions), 0))

\* Two records are counted although one has an unparsable timestamp or lacks
\* its value.
C8_Witness ==
    /\ ExtractedFeatures
    /\ Len(transactions) = 2
    /\ \E i \in 1..2 : \/ Cell(transactions[i], "timeStamp") = Str("n/a")
                       \/ "value" \notin DOMAIN transactions[i]
    /\ features["total_transactions"] = Num(Dec(2, 0))

RawFailed(txs) == {i \in 1..Len(txs) : IsInt(Cell(txs[i], "isError"), 1)}
RawZeroValue(txs) == {i \in 1..Len(txs) : IsInt(Cell(txs[i], "value"), 0)}

\* C9: in every FeatureSet computed from a non-empty list, failed_tx_ratio is
\* (records with error flag 1) / total_transactions, zero_value_tx_ratio is
\* (records with value 0) / total_transactions, and both lie in [0, 1].
C9_RatiosWithinUnitInterval ==
    (ExtractedFeatures /\ Len(transactions) > 0) =>
        /\ features["failed_tx_ratio"]
             = true_div(Cardinality(RawFailed(transactions)), Len(transactions))
        /\ features["zero_value_tx_ratio"]
             = true_div(Cardinality(RawZeroValue(transactions)), Len(transactions))
        /\ 0 <= features["failed_tx_ratio"].val
        /\ features["failed_tx_ratio"].val <= Dec(1, 0)
        /\ 0 <= features["zero_value_tx_ratio"].val
        /\ features["zero_value_tx_ratio"].val <= Dec(1, 0)

\* Half of the records failed, a record with an unparsable flag among them.
C9_Witness ==
    /\ ExtractedFeatures
    /\ Len(transactions) = 2
    /\ \E i \in 1..2 : Cell(transactions[i], "isError") = Str("n/a")
    /\ features["failed_tx_ratio"] = Num(Dec(0, 5000))
    /\ features["zero_value_tx_ratio"] = Num(Dec(0, 5000))

\* The sender (recipient) of the record is the address w, letter case aside.
RawSender(tx, w)    == "from" \in DOMAIN tx /\ tx["from"].tag = "str" /\ lower(tx["from"].val) = w
RawRecipient(tx, w) == "to" \in DOMAIN tx /\ tx["to"].tag = "str" /\ lower(tx["to"].val) = w

\* The value of the record in wei units, 0 when missing or unparsable.
RawValue(tx) ==
    IF "value" \in DOMAIN tx /\ tx["value"].tag \in {"num", "numstr"} THEN tx["value"].val ELSE 0

RECURSIVE RawSum(_, _, _, _)
RawSum(txs, w, Side(_, _), i) ==
    IF i = 0 THEN 0
    ELSE RawSum(txs, w, Side, i - 1) + (IF Side(txs[i], w) THEN RawValue(txs[i]) ELSE 0)

\* A well-formed single transaction of the scenario: parsable timestamp,
\* input payload field present, sender the subject, another recipient, value
\* 10^18 wei, error flag 0.
IsScenarioTx(tx, w) ==
    /\ DOMAIN tx = {"timeStamp", "value", "from", "to", "input", "isError"}
    /\ tx["timeStamp"].tag \in {"num", "numstr"}
    /\ RawSender(tx, w)
    /\ ~RawRecipient(tx, w)
    /\ IsInt(tx["value"], OneEth)
    /\ IsInt(tx["isError"], 0)

\* C10: a list of exactly one well-formed transaction sent by the subject to
\* another address, with value 10^18 wei and error flag 0, yields
\* total_transactions = 1, total_eth_sent = 1.0, total_eth_received = 0.0 and
\* account_age_days = 0; and in every FeatureSet computed, total_eth_sent
\* (total_eth_received) is the sum of the values of the records whose sender
\* (recipient) is the subject, divided by 10^18.
C10_SingleTransactionAndEthFlow ==
    /\ (last_call = "extract_features" /\ Len(transactions) = 1
            /\ IsScenarioTx(transactions[1], wallet_address)) =>
           /\ raised = NoError
           /\ features # EmptyDict
           /\ features["total_transactions"] = Num(Dec(1, 0))
           /\ features["total_eth_sent"] = Num(Dec(1, 0))
           /\ features["total_eth_received"] = Num(Dec(0, 0))
           /\ features["account_age_days"] = Num(0)
    /\ ExtractedFeatures =>
           /\ features["total_eth_sent"] =
                 Num(RawSum(transactions, wallet_address, RawSender, Len(transactions))
                        \div (WeiPerEth \div Scale))
           /\ features["total_eth_received"] =
                 Num(RawSum(transactions, wallet_address, RawRecipient, Len(transactions))
                        \div (WeiPerEth \div Scale))

\* The single transaction as Etherscan sends it: digit strings and a
\* mixed-case sender.
C10_Witness ==
    /\ ExtractedFeatures
    /\ Len(transactions) = 1
    /\ IsScenarioTx(transactions[1], wallet_address)
    /\ transactions[1]["from"] = Str("0xABC")
    /\ features["total_eth_sent"] = Num(Dec(1, 0))

(***************************************************************************)
(* Properties of the clock readings (Spec)                                 *)
(***************************************************************************)
\* The features that may change with the clock reading.
NowFeatures ==
    {"days_since_last_tx",
     "tx_count_6m", "total_eth_sent_6m", "total_eth_received_6m", "net_eth_change_6m",
     "largest_tx_value_6m", "avg_tx_value_6m", "failed_tx_count_6m",
     "unique_counterparties_6m",
     "tx_count_12m", "total_eth_sent_12m", "total_eth_received_12m", "net_eth_change_12m",
     "largest_tx_value_12m", "avg_tx_value_12m", "failed_tx_count_12m",
     "unique_counterparties_12m"}

\* Two results agree outside the keys named.
AgreeOutside(a, b, keys) ==
    /\ DOMAIN a = DOMAIN b
    /\ \A k \in DOMAIN a \ keys : a[k] = b[k]

\* C11: the result of extract_features on a transaction list and a subject
\* address changes with the clock reading only in days_since_last_tx and in
\* the 6m/12m windowed features (the same call at any other clock reading
\* raises or returns alike, and returns the same value for every other
\* feature); the result of extract_time_series_data changes with the clock
\* reading only in daily_activity.
C11_ClockReachesOnlyWindowedFeatures ==
    /\ last_call = "extract_features" =>
           \A c \in Clocks :
               LET other == extract_features(transactions, wallet_address, c)
               IN  /\ other.raised = raised
                   /\ raised = NoError =>
                          AgreeOutside(features, other.features, NowFeatures)
    /\ last_call = "extract_time_series_data" =>
           \A c \in Clocks :
               LET other == extract_time_series_data(transactions, wallet_address, c)
               IN  /\ other.raised = raised
                   /\ raised = NoError =>
                          AgreeOutside(time_series, other.time_series, {"daily_activity"})

\* A FeatureSet that another clock reading changes, in days_since_last_tx and
\* in the number of transactions of the last six months.
C11_Witness ==
    /\ ExtractedFeatures
    /\ \E c \in Clocks :
           LET other == extract_features(transactions, wallet_address, c).features
           IN  /\ other["days_since_last_tx"] # features["days_since_last_tx"]
               /\ other["tx_count_6m"] # features["tx_count_6m"]
               /\ other["account_age_days"] = features["account_age_days"]

(***************************************************************************)
(* Properties of the coercions of extract_features (Spec)                  *)
(***************************************************************************)
\* Every required field occurs in some record of the list.
RequiredFieldsOccur(txs) ==
    \A f \in {"timeStamp", "value", "from", "to"} : \E i \in 1..Len(txs) : f \in DOMAIN txs[i]

\* C15 as stated: extract_features never raises on a non-empty list in which
\* each required field occurs in at least one record; records that lack a
\* field or hold an unparsable timestamp, value or error flag are coerced and
\* a FeatureSet is returned, also when no record has a parsable timestamp.
\* (Stated for the lists in which some record has the input payload field;
\* C16 is about the others.)
C15_NeverRaisesOnCoercibleInput ==
    (/\ last_call = "extract_features"
     /\ Len(transactions) > 0
     /\ RequiredFieldsOccur(transactions)
     /\ \E i \in 1..Len(transactions) : "input" \in DOMAIN transactions[i]) =>
        /\ raised = NoError
        /\ features # EmptyDict

\* Every record carries the four required fields, with a timestamp that
\* parses.
WellFormedRequired(txs) ==
    \A i \in 1..Len(txs) :
        /\ {"timeStamp", "value", "from", "to"} \subseteq DOMAIN txs[i]
        /\ txs[i]["timeStamp"].tag \in {"num", "numstr"}

\* C16 as stated: on a non-empty list whose records carry the four required
\* fields, extract_features does not raise, and returns contract_interactions
\* = 0 when no record has an input field, contract_deployments = 0 when none
\* has a contractAddress field, failed_transactions = 0 when none has an
\* isError field and max_gas_price_tx_ratio = 0 when none has a gasPrice field.
C16_OptionalFieldsMayBeAbsent ==
    (/\ last_call = "extract_features"
     /\ Len(transactions) > 0
     /\ WellFormedRequired(transactions)) =>
        /\ raised = NoError
        /\ features # EmptyDict
        /\ "input" \notin Columns(transactions) => features["contract_interactions"] = Num(0)
        /\ "contractAddress" \notin Columns(transactions) => features["contract_deployments"] = Num(0)
        /\ "isError" \notin Columns(transactions) => features["failed_transactions"] = Num(0)
        /\ "gasPrice" \notin Columns(transactions) => features["max_gas_price_tx_ratio"] = Num(0)

(***************************************************************************)
(* Properties of the counterparty and failure statistics (Spec)            *)
(***************************************************************************)
\* The counterparty appearances of the list: <<k, "to">> for a record k whose
\* sender is the subject, <<k, "from">> for one whose recipient is.
Appearances(txs, w) ==
    {<<k, "to">> : k \in {j \in 1..Len(txs) : RawSender(txs[j], w)}}
        \cup {<<k, "from">> : k \in {j \in 1..Len(txs) : RawRecipient(txs[j], w)}}

\* The counterparty of an appearance.
Counterparty(txs, a) == astype_str_lower(Cell(txs[a[1]], a[2]))

\* C18 as stated: repeat_counterparty_rate is the number of counterparty
\* appearances beyond each counterparty's first one, divided by the number of
\* appearances (1/2 for one counterparty appearing twice, 0 when every
\* counterparty appears once or none appears).
C18_RepeatRateCountsBeyondFirst ==
    ExtractedFeatures =>
        LET apps     == Appearances(transactions, wallet_address)
            distinct == {Counterparty(transactions, a) : a \in apps}
        IN  features["repeat_counterparty_rate"]
                = true_div(Cardinality(apps) - Cardinality(distinct), max1(Cardinality(apps)))

\* The lengths of the runs of consecutive failed records of the list, in the
\* order given.
FailedRuns(txs) ==
    {k \in 0..Len(txs) :
        \E i \in 1..(Len(txs) - k + 1) : \A j \in i..(i + k - 1) : j \in RawFailed(txs)}

RawWindow(txs, cutoff) ==
    LET sub == SelectSeq(txs, LAMBDA tx : /\ "timeStamp" \in DOMAIN tx
                                         /\ tx["timeStamp"].tag \in {"num", "numstr"}
                                         /\ tx["timeStamp"].val >= cutoff)
    IN  [i \in 1..Len(sub) |-> convert_row(sub[i], "isError" \in Columns(txs))]

\* The eight all-time features recomputed over the rows d; 0 when d is empty.
Recomputed(d, w) ==
    IF d = <<>>
    THEN [n \in {"tx_count", "total_eth_sent", "total_eth_received", "net_eth_change",
                 "largest_tx_value", "avg_tx_value", "failed_tx_count",
                 "unique_counterparties"} |-> Num(0)]
    ELSE [tx_count              |-> total_transactions(d),
          total_eth_sent        |-> total_eth_sent(d, w),
          total_eth_received    |-> total_eth_received(d, w),
          net_eth_change        |-> net_eth_change(d, w),
          largest_tx_value      |-> largest_tx_value(d),
          avg_tx_value          |-> avg_tx_value(d),
          failed_tx_count       |-> failed_transactions(d),
          unique_counterparties |-> unique_counterparties(d, w)]

\* The eight features of the window of the last W months in the dict f.
Windowed(f, W) ==
    IF W = 6
    THEN [tx_count              |-> f["tx_count_6m"],
          total_eth_sent        |-> f["total_eth_sent_6m"],
          total_eth_received    |-> f["total_eth_received_6m"],
          net_eth_change        |-> f["net_eth_change_6m"],
          largest_tx_value      |-> f["largest_tx_value_6m"],
          avg_tx_value          |-> f["avg_tx_value_6m"],
          failed_tx_count       |-> f["failed_tx_count_6m"],
          unique_counterparties |-> f["unique_counterparties_6m"]]
    ELSE [tx_count              |-> f["tx_count_12m"],
          total_eth_sent        |-> f["total_eth_sent_12m"],
          total_eth_received    |-> f["total_eth_received_12m"],
          net_eth_change        |-> f["net_eth_change_12m"],
          largest_tx_value      |-> f["largest_tx_value_12m"],
          avg_tx_value          |-> f["avg_tx_value_12m"],
          failed_tx_count       |-> f["failed_tx_count_12m"],
          unique_counterparties |-> f["unique_counterparties_12m"]]

ZeroForNaN(r) ==
    [r EXCEPT !.largest_tx_value = IF @ = NaN THEN Num(0) ELSE @,
              !.avg_tx_value     = IF @ = NaN THEN Num(0) ELSE @]

ExtractedTimeSeries ==
    /\ last_call = "extract_time_series_data"
    /\ raised = NoError
    /\ time_series # empty_time_series

\* The record carries a value that parses as a number.
RawValid(tx) == "value" \in DOMAIN tx /\ tx["value"].tag \in {"num", "numstr"}

\* Lower bounds of the seven buckets, in the wei units of the records:
\* 0, 0.001, 0.01, 0.1, 1, 10 and 100 ETH.
BucketFloor ==
    <<0, OneEth \div 1000, OneEth \div 100, OneEth \div 10, OneEth, 10 * OneEth, 100 * OneEth>>

BucketLabel == <<"<0.001", "0.001-0.01", "0.01-0.1", "0.1-1", "1-10", "10-100", ">100">>

\* The records whose value lies in the half-open bucket i.
RawInBucket(txs, i) ==
    {k \in 1..Len(txs) :
        /\ RawValid(txs[k])
        /\ BucketFloor[i] <= RawValue(txs[k])
        /\ i < 7 => RawValue(txs[k]) < BucketFloor[i + 1]}

\* C12: value_distribution lists the seven buckets in the order "<0.001",
\* "0.001-0.01", "0.01-0.1", "0.1-1", "1-10", "10-100", ">100"; the count of a
\* bucket is the number of records whose value v satisfies lo <= v < hi for
\* the bounds 0, 0.001, 0.01, 0.1, 1, 10, 100, infinity ETH, so that every
\* record with a valid non-negative value is counted in exactly one bucket,
\* and a record of exactly 10^18 wei is counted in "1-10", not in "0.1-1".
C12_ValueBucketsHalfOpen ==
    ExtractedTimeSeries =>
        LET vd == time_series["value_distribution"]
        IN  /\ Len(vd) = 7
            /\ \A i \in 1..7 :
                   /\ vd[i].bucket = BucketLabel[i]
                   /\ vd[i].count = Cardinality(RawInBucket(transactions, i))
            /\ SumSeq([i \in 1..7 |-> vd[i].count])
                   = Cardinality({k \in 1..Len(transactions) :
                                     RawValid(transactions[k]) /\ RawValue(transactions[k]) >= 0})
            /\ \A k \in 1..Len(transactions) :
                   IsInt(Cell(transactions[k], "value"), OneEth) =>
                       k \in RawInBucket(transactions, 5) /\ k \notin RawInBucket(transactions, 4)

\* One record of exactly 1 ETH and one of 0.5 ETH: one count in "1-10", one
\* in "0.1-1".
C12_Witness ==
    /\ ExtractedTimeSeries
    /\ Len(transactions) = 2
    /\ IsInt(Cell(transactions[1], "value"), OneEth)
    /\ IsInt(Cell(transactions[2], "value"), OneEth \div 2)
    /\ time_series["value_distribution"][5] = [bucket |-> "1-10", count |-> 1]
    /\ time_series["value_distribution"][4] = [bucket |-> "0.1-1", count |-> 1]

\* The statistics an entry of the monthly or weekly series is to carry.
EntryStatistics ==
    {"tx_count", "tx_sent", "tx_received", "eth_sent", "eth_received", "net_eth",
     "unique_counterparties", "avg_tx_value", "failed_tx"}

\* C14 as stated: every entry of the monthly and of the weekly series carries
\* the transaction count, the sent and received counts, ETH sent, ETH received
\* and net ETH (= received - sent), the number of unique counterparties, the
\* average value and the failed-transaction count of its bucket, the counts
\* adding up to the number of records over the buckets.
C14_EntriesCarryAllStatistics ==
    ExtractedTimeSeries =>
        \A name \in {"monthly", "weekly"} :
            LET series == time_series[name]
            IN  /\ \A i \in 1..Len(series) :
                       /\ EntryStatistics \subseteq DOMAIN series[i]
                       /\ series[i].net_eth
                              = Num(series[i].eth_received.val - series[i].eth_sent.val)
                       /\ series[i].tx_sent <= series[i].tx_count
                       /\ series[i].tx_received <= series[i].tx_count
                       /\ series[i].failed_tx <= series[i].tx_count
                /\ (\A k \in 1..Len(transactions) :
                        Cell(transactions[k], "timeStamp").tag \in {"num", "numstr"}) =>
                       SumSeq([i \in 1..Len(series) |-> series[i].tx_count]) = Len(transactions)

(***************************************************************************)
(* Properties of long histories (SpecHistory)                              *)
(***************************************************************************)
\* The calendar months (ISO weeks) in which the records fall, as ordinals.
RawMonths(txs) ==
    {month_ordinal(month_of(txs[k]["timeStamp"].val)) : k \in 1..Len(txs)}
RawWeeks(txs) ==
    {week_of(txs[k]["timeStamp"].val) : k \in 1..Len(txs)}

\* The n largest elements of S (all of S when it has fewer).
Latest(S, n) == {x \in S : Cardinality({y \in S : y > x}) < n}

\* C13: the monthly series has at most 24 entries and the weekly series at
\* most 52; the entries are those of the 24 (52) chronologically latest
\* months (weeks) in which a record falls, in ascending order, older ones
\* being discarded.
C13_SeriesKeepLatestBuckets ==
    ExtractedTimeSeries =>
        LET monthly == time_series["monthly"]
            weekly  == time_series["weekly"]
            months  == sorted(Latest(RawMonths(transactions), 24))
            weeks   == sorted(Latest(RawWeeks(transactions), 52))
        IN  /\ Len(monthly) <= 24
            /\ Len(weekly) <= 52
            /\ Len(monthly) = Len(months)
            /\ Len(weekly) = Len(weeks)
            /\ \A i \in 1..Len(monthly) :
                   monthly[i].month = <<months[i] \div 12, (months[i] % 12) + 1>>
            /\ \A i \in 1..Len(weekly) :
                   weekly[i].week = <<weeks[i], weeks[i] + 6>>

\* A history that spans more than 24 months and more than 52 weeks, listed
\* out of chronological order, of which 24 and 52 entries are kept.
C13_Witness ==
    /\ ExtractedTimeSeries
    /\ Cardinality(RawMonths(transactions)) > 24
    /\ Cardinality(RawWeeks(transactions)) > 52
    /\ transactions[2]["timeStamp"].val > transactions[3]["timeStamp"].val
    /\ Len(time_series["monthly"]) = 24
    /\ Len(time_series["weekly"]) = 52

(***************************************************************************)
(* Properties of the daily activity (SpecDaily)                            *)
(***************************************************************************)
\* The records whose timestamp parses and lies at or after the clock reading
\* minus 365 days.
RawInDailyWindow(txs, clock) ==
    {k \in 1..Len(txs) :
        /\ "timeStamp" \in DOMAIN txs[k]
        /\ txs[k]["timeStamp"].tag \in {"num", "numstr"}
        /\ txs[k]["timeStamp"].val >= clock - 365 * 86400}

RawDate(tx) == tx["timeStamp"].val \div 86400

\* C21: daily_activity has one (date, count) entry for exactly each calendar
\* date on which a transaction with timestamp at or after now minus 365 days
\* occurred, the count being the number of such transactions on that date;
\* the entries are in strictly ascending date order, no older transaction is
\* counted, and the counts sum to the number of in-window transactions.
C21_DailyActivityCountsWindowByDate ==
    (last_call = "extract_time_series_data" /\ raised = NoError) =>
        LET da     == time_series["daily_activity"]
            recent == RawInDailyWindow(transactions, now)
        IN  /\ {da[i].date : i \in 1..Len(da)} = {RawDate(transactions[k]) : k \in recent}
            /\ \A i \in 1..Len(da) :
                   da[i].count = Cardinality({k \in recent : RawDate(transactions[k]) = da[i].date})
            /\ \A i \in 1..(Len(da) - 1) : da[i].date < da[i + 1].date
            /\ SumSeq([i \in 1..Len(da) |-> da[i].count]) = Cardinality(recent)

\* A record an hour before the window opens and one at the second it opens,
\* both on the same date: the date is listed with a count of one.
C21_Witness ==
    /\ last_call = "extract_time_series_data"
    /\ raised = NoError
    /\ Len(transactions) = 2
    /\ IsInt(transactions[1]["timeStamp"], now - 365 * 86400 - 3600)
    /\ IsInt(transactions[2]["timeStamp"], now - 365 * 86400)
    /\ time_series["daily_activity"] = <<[date |-> (now - 365 * 86400) \div 86400, count |-> 1]>>

(***************************************************************************)
(* Properties of the cumulative series (Spec)                              *)
(***************************************************************************)
\* The records whose timestamp parses.
RawTimed(txs) ==
    {k \in 1..Len(txs) :
        "timeStamp" \in DOMAIN txs[k] /\ txs[k]["timeStamp"].tag \in {"num", "numstr"}}

\* The calendar month of a record, as year * 12 + (month - 1).
RawMonth(tx) == month_ordinal(month_of(tx["timeStamp"].val))

\* The wei moved up to and including the month m by the records of txs on
\* the given side ("in": received by w, "out": sent by w).
RawMovedUpTo(txs, w, side, m) ==
    SumSeq([k \in 1..Len(txs) |->
               IF /\ k \in RawTimed(txs)
                  /\ RawMonth(txs[k]) <= m
                  /\ IF side = "in" THEN RawRecipient(txs[k], w) ELSE RawSender(txs[k], w)
               THEN RawValue(txs[k]) ELSE 0])

\* C22 as stated: the cumulative series has one entry per distinct calendar
\* month of the input, in ascending month order and not truncated to 24; the
\* entry of month m holds the running totals over the months up to m
\* (transactions, ETH received, ETH sent, and their difference);
\* cumulative_tx never decreases and ends at the number of transactions with
\* a valid timestamp.
C22_CumulativeRunsOverAllMonths ==
    ExtractedTimeSeries =>
        LET cum    == time_series["cumulative"]
            timed  == RawTimed(transactions)
            months == sorted({RawMonth(transactions[k]) : k \in timed})
        IN  /\ Len(cum) = Len(months)
            /\ \A i \in 1..Len(cum) :
                   i <= Len(months) =>
                       /\ cum[i].month = <<months[i] \div 12, (months[i] % 12) + 1>>
                       /\ cum[i].cumulative_tx =
                              Cardinality({k \in timed : RawMonth(transactions[k]) <= months[i]})
                       /\ cum[i].cumulative_eth_in =
                              Num(RawMovedUpTo(transactions, wallet_address, "in", months[i])
                                      \div (OneEth \div Scale))
                       /\ cum[i].cumulative_eth_out =
                              Num(RawMovedUpTo(transactions, wallet_address, "out", months[i])
                                      \div (OneEth \div Scale))
                       /\ cum[i].cumulative_net =
                              Num(cum[i].cumulative_eth_in.val - cum[i].cumulative_eth_out.val)
            /\ \A i \in 1..(Len(cum) - 1) : cum[i].cumulative_tx <= cum[i + 1].cumulative_tx
            /\ cum # <<>> => cum[Len(cum)].cumulative_tx = Cardinality(timed)

(***************************************************************************)
(* Properties of the statistical features (Spec)                           *)
(***************************************************************************)
\* C23 as stated: for every non-empty transaction list, tx_value_skewness
\* and tx_value_kurtosis of the returned FeatureSet are defined numbers, 0
\* when there is at most one transaction, and never not-a-number.
C23_SkewnessAndKurtosisAreDefined ==
    (/\ last_call = "extract_features"
     /\ raised = NoError
     /\ features # EmptyDict) =>
        /\ IsNum(features["tx_value_skewness"])
        /\ IsNum(features["tx_value_kurtosis"])
        /\ Len(transactions) <= 1 =>
               /\ features["tx_value_skewness"] = Num(0)
               /\ features["tx_value_kurtosis"] = Num(0)

(***************************************************************************)
(* Properties of the normalization of extract_time_series_data (Spec)      *)
(***************************************************************************)
\* The fields among timeStamp, value, from and to that no record carries.
RawAbsent(txs) ==
    {f \in {"timeStamp", "value", "from", "to"} : \A i \in 1..Len(txs) : f \notin DOMAIN txs[i]}

\* C24 as stated: on a non-empty list in which one of timeStamp, value, from
\* and to is absent from every record, extract_time_series_data fails with
\* the schema error of extract_features (the ValueError naming the missing
\* fields); on every input that extract_features accepts it returns a
\* TimeSeries.  (Lists of records that carry no field at all are left to C5.)
C24_TimeSeriesNormalizesLikeFeatures ==
    last_call = "extract_time_series_data" =>
        /\ (/\ \E i \in 1..Len(transactions) : DOMAIN transactions[i] # {}
            /\ RawAbsent(transactions) # {}) =>
               raised = [type |-> "ValueError", missing |-> RawAbsent(transactions)]
        /\ extract_features(transactions, wallet_address, now).raised = NoError =>
               raised = NoError /\ time_series # NotCalled

(***************************************************************************)
(* Properties of the address check of evaluate_wallet (SpecEngine)         *)
(***************************************************************************)
\* The string is, once its surrounding whitespace is removed, 42 characters
\* long, begins with 0x and has hex digits of either case after the prefix.
IsHexAddress(address) ==
    \E i \in 1..Len(address) + 1, j \in 0..Len(address) :
        /\ j - i + 1 = 42
        /\ \A k \in 1..Len(address) : (k < i \/ k > j) => address[k] \in Whitespace
        /\ address[i] = "0" /\ address[i + 1] = "x"
        /\ \A k \in i + 2..j :
               address[k] \in {HexDigits[d] : d \in 1..16} \cup {"A", "B", "C", "D", "E", "F"}

\* The string with its whitespace removed and its capitals replaced.
LowercasedForm(address) ==
    LET kept == SelectSeq(address, LAMBDA c : c \notin Whitespace)
    IN  [i \in 1..Len(kept) |->
            IF \E u \in 1..Len(UpperLetters) : UpperLetters[u] = kept[i]
            THEN LowerLetters[CHOOSE u \in 1..Len(UpperLetters) : UpperLetters[u] = kept[i]]
            ELSE kept[i]]

\* C25 as stated: every call made with an address that is not a 42-character
\* hex string starting with 0x (after trimming) has raised HTTPException 400
\* without a cache lookup or a fetch; every call made with such an address
\* uses the lowercased form as cache key, fetch argument, extraction subject
\* and result.wallet_address.
C25_RejectsEveryNonHexAddress ==
    \A t \in Evaluations :
        evaluations[t].pc # "idle" =>
            IF IsHexAddress(evaluations[t].wallet_address)
            THEN /\ evaluations[t].raised # HTTPException(400)
                 /\ evaluations[t].normalized_address = LowercasedForm(evaluations[t].wallet_address)
                 /\ \A i \in 1..Len(log[t]) :
                        log[t][i].key = LowercasedForm(evaluations[t].wallet_address)
                 /\ evaluations[t].pc = "returned" =>
                        evaluations[t].result.wallet_address
                            = LowercasedForm(evaluations[t].wallet_address)
            ELSE /\ evaluations[t].pc = "raised"
                 /\ evaluations[t].raised = HTTPException(400)
                 /\ log[t] = <<>>

(***************************************************************************)
(* Properties of concurrent evaluate_wallet calls (SpecEngine)             *)
(***************************************************************************)
\* The call t has returned the result it built from its own fetch.
ReturnedFetched(t) ==
    /\ evaluations[t].pc = "returned"
    /\ \E i \in 1..Len(log[t]) : log[t][i].op = "fetch"

\* The ScoreComputation the call t returns when it runs alone (no cache
\* entry held) and its fetch returns the same transactions at the same clock.
AloneResult(t) ==
    scored(normalize_wallet_address(evaluations[t].wallet_address).address,
           evaluations[t].transactions).result

\* The calls t and u are the only calls made for their two distinct wallets.
TwoWallets(t, u) ==
    /\ t # u
    /\ evaluations[t].normalized_address # evaluations[u].normalized_address
    /\ \A v \in Evaluations \ {t, u} :
           evaluations[v].normalized_address
               \notin {evaluations[t].normalized_address, evaluations[u].normalized_address}

\* C26: when two calls for distinct wallets have both returned after their
\* fetch, in whatever order the fetches were issued and answered, each has
\* returned the ScoreComputation it returns when run alone on the same
\* transactions and clock, and a configured cache holds each wallet's own
\* result under its own address (until the entry runs out) and under no
\* other.
C26_DistinctWalletsDoNotInterfere ==
    \A t, u \in Evaluations :
        (ReturnedFetched(t) /\ ReturnedFetched(u) /\ TwoWallets(t, u)) =>
            /\ evaluations[t].result = AloneResult(t)
            /\ evaluations[t].result.wallet_address = evaluations[t].normalized_address
            /\ cache # NoCache =>
                   /\ evaluations[t].normalized_address \in DOMAIN cache.entries
                   /\ cache.entries[evaluations[t].normalized_address].value = evaluations[t].result
                   /\ \A k \in DOMAIN cache.entries :
                          cache.entries[k].value = evaluations[u].result =>
                              k = evaluations[u].normalized_address

\* The second of two calls for distinct wallets was made while the first was
\* waiting for its fetch; both have returned results computed from
\* transactions, and the cache holds both.
C26_Witness ==
    \E t, u \in Evaluations :
        /\ TwoWallets(t, u)
        /\ t \in evaluations[u].alongside
        /\ ReturnedFetched(t) /\ ReturnedFetched(u)
        /\ evaluations[t].transactions # <<>> /\ evaluations[u].transactions # <<>>
        /\ cache # NoCache
        /\ cache_holds(cache, evaluations[t].normalized_address)
        /\ cache_holds(cache, evaluations[u].normalized_address)

(***************************************************************************)
(* Properties of the cache contents (SpecEngine)                           *)
(***************************************************************************)
\* The capital letters.
Capitals == {UpperLetters[u] : u \in 1..Len(UpperLetters)}

\* A string of 42 characters that begins with 0x and holds no capital.
IsLowercaseAddress(k) ==
    /\ Len(k) = 42
    /\ k[1] = "0" /\ k[2] = "x"
    /\ \A i \in 1..Len(k) : k[i] \notin Capitals

\* Every entry of the cache c is a ScoreComputation for its own key, and the
\* key is a lowercase 42-character 0x address.
EntriesMatchKeys(c) ==
    c # NoCache =>
        \A k \in DOMAIN c.entries :
            /\ c.entries[k].value.wallet_address = k
            /\ IsLowercaseAddress(k)

\* C27: at every step of the engine the cache entries match their keys; a
\* step of a call that ends in an exception, or that leaves the call waiting
\* for its fetch, leaves the cache as it was; and the entry stored by a call
\* whose fetch returned no transactions has credit_score 0.0, no features and
\* transaction_count 0.
C27_CacheEntriesMatchTheirKeys ==
    [][/\ EntriesMatchKeys(cache) /\ EntriesMatchKeys(cache')
       /\ \A t \in Evaluations :
              /\ (evaluations'[t] # evaluations[t] /\ evaluations'[t].pc \in {"raised", "fetch"}) =>
                     cache' = cache
              /\ (/\ cache # NoCache
                  /\ evaluations[t].pc = "fetch"
                  /\ evaluations'[t].pc = "returned"
                  /\ evaluations'[t].transactions = <<>>) =>
                     /\ cache_holds(cache', evaluations[t].normalized_address)
                     /\ cache_get(cache', evaluations[t].normalized_address).credit_score = Float(0)
                     /\ cache_get(cache', evaluations[t].normalized_address).onchain_features
                            = EmptyDict
                     /\ cache_get(cache', evaluations[t].normalized_address).transaction_count = 0
      ]_vars

\* A call handed an address in capitals has stored the result of a wallet
\* without transactions, and the other call has failed after its fetch with
\* the cache holding that entry.
C27_Witness ==
    \E t, u \in Evaluations :
        /\ cache # NoCache
        /\ evaluations[t].pc = "returned"
        /\ evaluations[t].wallet_address # evaluations[t].normalized_address
        /\ evaluations[t].transactions = <<>>
        /\ cache_holds(cache, evaluations[t].normalized_address)
        /\ cache_get(cache, evaluations[t].normalized_address).transaction_count = 0
        /\ evaluations[u].pc = "raised"
        /\ evaluations[u].raised.type \in {"ValueError", "RuntimeError"}
        /\ \E i \in 1..Len(log[u]) : log[u][i].op = "fetch"

(***************************************************************************)
(* Properties of cached results (SpecEngine)                               *)
(***************************************************************************)
\* The operations a call makes when it does not answer from the cache.
Work == {"fetch", "extract_features", "cache.set"}

\* C28 as stated: when a call is made with an address that equals, up to
\* letter case and surrounding whitespace, the key of an entry the cache
\* still holds, the call returns that entry in the step in which it is made,
\* makes no fetch, extraction or cache write, and leaves the cache as it
\* was; and a call writes to the cache only after its fetch for the same
\* address.
C28_CachedResultIsReturned ==
    [][\A t \in Evaluations :
           /\ (/\ evaluations[t].pc = "idle"
               /\ evaluations'[t].pc # "idle"
               /\ cache # NoCache
               /\ cache_holds(cache, LowercasedForm(evaluations'[t].wallet_address))) =>
                  /\ evaluations'[t].pc = "returned"
                  /\ evaluations'[t].result
                         = cache_get(cache, LowercasedForm(evaluations'[t].wallet_address))
                  /\ \A i \in 1..Len(log'[t]) : log'[t][i].op \notin Work
                  /\ cache' = cache
           /\ \A j \in 1..Len(log'[t]) :
                  log'[t][j].op = "cache.set" =>
                      \E i \in 1..j - 1 :
                          log'[t][i].op = "fetch" /\ log'[t][i].key = log'[t][j].key
      ]_vars

(***************************************************************************)
(* Monotonicity of the scorecard (SpecScore)                               *)
(***************************************************************************)
\* The numeric values the feature n is compared at: below zero, zero, far
\* above its last bin bound, and every bin bound of the feature with the
\* values next to it on either side.
ComparedValues(n) ==
    {0 - Dec(1, 0), 0 - 1, 0, 1, Dec(5000 * 30, 0)}
        \cup UNION {{SpecBins[n][i][1] - 1, SpecBins[n][i][1], SpecBins[n][i][1] + 1} :
                        i \in 1..Len(SpecBins[n])}

\* The score of the feature dict with the feature n set to the number v.
ScoreWith(n, v) == calculate_scorecard_credit_score(Override(features, n, Num(v))).score

\* C29: when the scorecard has returned the score of a feature dict, a
\* dict that differs from it in one numeric scorecard feature alone gets a
\* score that is no lower when its value of that feature is larger, and no
\* higher when its value is smaller.
C29_ScorecardIsMonotone ==
    (last_call = "calculate_scorecard_credit_score" /\ raised = NoError) =>
        \A n \in ScorecardNames :
            (n \in DOMAIN features /\ IsNum(features[n])) =>
                \A v \in ComparedValues(n) :
                    \A other \in {ScoreWith(n, v)} :
                        /\ v >= features[n].val => other >= score.val
                        /\ v <= features[n].val => other <= score.val

\* The scorecard has returned a score for a dict of nine numeric features,
\* each of which raises the score at some larger value.
C29_Witness ==
    /\ last_call = "calculate_scorecard_credit_score" /\ raised = NoError
    /\ AllNumeric(features)
    /\ \A n \in ScorecardNames :
           \E v \in ComparedValues(n) : v > features[n].val /\ ScoreWith(n, v) > score.val

(***************************************************************************)
(* Grades of scorecard scores (SpecScore)                                  *)
(***************************************************************************)
\* The bands of the grade table as the claim lists them, in points.
ClaimedBands ==
    <<<<700, 1000>>, <<653, 699>>, <<600, 652>>, <<570, 599>>, <<528, 569>>, <<0, 527>>>>

\* The bands of the table that hold the score of x points (x counted in
\* units of 1/Scale).
BandsHolding(x) ==
    {i \in 1..Len(ClaimedBands) :
        ClaimedBands[i][1] * Scale <= x /\ x <= ClaimedBands[i][2] * Scale}

\* C30: the table has the six bands listed, no two of which share a score;
\* a score the scorecard has returned lies in exactly one of them, and
\* get_grade_info returns that band with the meter at a tenth of the score,
\* not the last band with the meter at 0.
C30_EveryScoreHasOneGrade ==
    /\ Len(GRADE_TABLE) = Len(ClaimedBands)
    /\ \A i \in 1..Len(ClaimedBands) :
           /\ GRADE_TABLE[i].min_score = ClaimedBands[i][1] * Scale
           /\ GRADE_TABLE[i].max_score = ClaimedBands[i][2] * Scale
    /\ \A i, j \in 1..Len(ClaimedBands) :
           i # j => (ClaimedBands[i][2] < ClaimedBands[j][1] \/ ClaimedBands[j][2] < ClaimedBands[i][1])
    /\ (last_call = "calculate_scorecard_credit_score" /\ raised = NoError) =>
           /\ Cardinality(BandsHolding(Dec(score.val, 0))) = 1
           /\ \A i \in BandsHolding(Dec(score.val, 0)) :
                  get_grade_info(Dec(score.val, 0))
                      = with_meter(GRADE_TABLE[i], score.val * (Scale \div 10))
           /\ get_grade_info(Dec(score.val, 0)).meter_percent > 0

\* The scorecard has returned 700, the lowest score of the first band.
C30_Witness ==
    /\ last_call = "calculate_scorecard_credit_score" /\ raised = NoError
    /\ score = Float(700)
    /\ get_grade_info(Dec(score.val, 0)).grade = 1
    /\ get_grade_info(Dec(699, 5000)).meter_percent = 0

====
